---- MODULE Spec2Model ----
(***************************************************************************)
(* A model of rt_api: the Api facade (rt_api/api.py) with its             *)
(* authentication gate, token acquisition, read and write operations, and  *)
(* the pagination generator, and the resources of rt_api/models.py with    *)
(* their lazy relations, their construction from JSON and the Video.       *)
(*                                                                         *)
(* Python values are modelled as follows.                                  *)
(*   None (as an id)      NoId                                             *)
(*   None (as a string)   "None"                                           *)
(*   None (as an object)  NoUser, the record [type |-> "NoneType"]         *)
(*   a model object       a record with a type field and its id_           *)
(* An HTTP response is its status code, the kind of its body and, for the  *)
(* authentication exchange, the value of its X-User-Id header.             *)
(***************************************************************************)
EXTENDS Integers, Sequences, FiniteSets

VARIABLES
    constructed,   \* TRUE once Api.__init__ has returned
    user_id,       \* Api.user_id
    _me,           \* Api._me
    token,         \* Api.__token
    session,       \* Api.__session: its class and its Authorization header
    authed,        \* history: an authenticate call has returned a token
    meFetched,     \* history: the me property issued a fetch since the last
                   \* authenticate, update_user_details or _get_token call
    last,          \* history: the last call, its inputs, its outcome and
                   \* the gate's state before it
    fetches,       \* what the token provider answers to the successive
                   \* fetch_token attempts of one _get_token call
    feed,          \* the server's pages, as seen by the pagination generator
    pager,         \* the generator objects returned by Api.__pager
    lazy,          \* resources of rt_api/models.py and their lazy relations
    built,         \* resources built from JSON, compared and looked into
    video,         \* a Video, its rendition table and its selected quality
    found,         \* the last search: its response, its filter and its result
    shown,         \* a Show, the Seasons it holds and the episodes it gathers
    users,         \* the User objects of the acting user that a caller holds
    media,         \* an Episode built from JSON with a media section
    saved          \* the token of a successful authenticate that the caller
                   \* has kept for a later session

vars == <<constructed, user_id, _me, token, session, authed, meFetched, last,
         fetches, feed, pager, lazy, built, video, found, shown, users, media,
         saved>>

apiVars == <<constructed, user_id, _me, token, session, authed, meFetched, last>>

pagerVars == <<fetches, feed, pager>>

moreVars == <<shown, users, media, saved>>

modelVars == <<lazy, built, video, found, moreVars>>

----------------------------------------------------------------------------
(* Bounds of the model. *)

MaxUserId == 2

MaxResourceId == 2

OutcomeLen == 4

MaxPage == 3

MaxPageLen == 2

MaxStartPage == 2

MaxStops == 2

MaxBuckets == 2

MaxBucketLen == 2

MaxSeasons == 2

MaxEpisodes == 2

MaxMediaItems == 2

----------------------------------------------------------------------------
(* Values. *)

NoId == -1

NoUser == [type |-> "NoneType"]

UserIds == 0..MaxUserId

\* Ids of episodes, seasons and shows.
ResourceIds == 1..MaxResourceId

Tokens == {"tokA", "tokB"}

Digits == <<"0", "1", "2", "3", "4", "5", "6", "7", "8", "9">>

\* The X-User-Id header of the authentication response: absent, not a
\* number, or the decimal form of a user id.
HeaderValues == {"absent", "garbage"} \cup {Digits[n + 1] : n \in UserIds}

\* int(result.headers.get("X-User-Id")): [exc, value].
IntOfHeader(hdr) ==
    IF hdr = "absent" THEN [exc |-> "TypeError", value |-> NoId]
    ELSE IF \E n \in 0..9 : Digits[n + 1] = hdr
         THEN [exc |-> "none", value |-> CHOOSE n \in 0..9 : Digits[n + 1] = hdr]
         ELSE [exc |-> "ValueError", value |-> NoId]

\* Python truthiness of an id: None and 0 are false.
Falsy(uid) == uid = NoId \/ uid = 0

\* User.__init__: the queue is not loaded and not dirty.
NewUser(id) ==
    [type |-> "User", id_ |-> id, _queue |-> "None", queue_dirty |-> FALSE]

NewObject(type, id) ==
    IF type = "User" THEN NewUser(id) ELSE [type |-> type, id_ |-> id]

ReadStatuses == {200, 204, 304, 401, 403, 404, 500}

WriteStatuses == {200, 204, 304, 401, 500}

AuthStatuses == {200, 201, 401, 403, 500}

\* Body of a GET or PUT response: not JSON, JSON that is false in Python
\* (an empty object), or a JSON object describing the resource asked for.
Bodies == {"nonjson", "empty", "object"}

\* Body of the authentication response: not JSON, or a JSON object holding
\* neither, one or both of the keys error_description and access_token.
AuthBodies == {"nonjson", "json_none", "json_err", "json_tok", "json_both"}

\* key in data, for the parsed body of an authentication response.
HasKey(body, key) ==
    \/ key = "error_description" /\ body \in {"json_err", "json_both"}
    \/ key = "access_token" /\ body \in {"json_tok", "json_both"}

FetchOutcomes ==
    {"ok", "AccessDeniedError", "InvalidClientError", "MissingTokenError", "OtherError"}

----------------------------------------------------------------------------
(* The record of the last call. *)

NoCall ==
    [op |-> "none", exc |-> "none", ret |-> "None", obj |-> NoUser, reqs |-> 0,
     status |-> 0, body |-> "none", hdr |-> "none", arg |-> NoId,
     pre_uid |-> NoId, pre_me |-> NoUser, pre_token |-> "None",
     pre_session |-> [kind |-> "none", auth |-> "None"], pre_fetched |-> FALSE,
     api |-> FALSE, fresh |-> FALSE, held |-> NoUser]

\* No call is under way: the caller has taken the result of the last one.
Idle == last.op = "none"

\* A call of op made in the current state.
Call(op) ==
    [NoCall EXCEPT !.op = op, !.pre_uid = user_id, !.pre_me = _me,
                   !.pre_token = token, !.pre_session = session,
                   !.pre_fetched = meFetched]

----------------------------------------------------------------------------
(* Api._get_token: the retry loop over oauth.fetch_token. *)

MaxTokenAttempts == 3

RetriedErrors == {"AccessDeniedError", "InvalidClientError", "MissingTokenError"}

RECURSIVE GetTokenFromMut(_, _)
\* A loop that makes one attempt too many.
GetTokenFromMut(outcomes, i) ==
    IF i > MaxTokenAttempts + 1
    THEN [exc |-> "AuthenticationError", reqs |-> i - 1]
    ELSE IF outcomes[i] = "ok" THEN [exc |-> "none", reqs |-> i]
    ELSE IF outcomes[i] \in RetriedErrors THEN GetTokenFromMut(outcomes, i + 1)
    ELSE [exc |-> outcomes[i], reqs |-> i]

RECURSIVE GetTokenFrom(_, _)
\* The loop from its i-th attempt on, outcomes[i] being what the i-th
\* fetch_token does: [exc, reqs], reqs the number of attempts made.
GetTokenFrom(outcomes, i) ==
    IF i > MaxTokenAttempts
    THEN [exc |-> "AuthenticationError", reqs |-> i - 1]
    ELSE IF outcomes[i] = "ok" THEN [exc |-> "none", reqs |-> i]
    ELSE IF outcomes[i] \in RetriedErrors THEN GetTokenFrom(outcomes, i + 1)
    ELSE [exc |-> outcomes[i], reqs |-> i]

----------------------------------------------------------------------------
(* The authentication gate and the decode policy. *)

\* A gate that lets a call through when nothing is known of the user.
NotAuthenticatedMut(uid, me) == Falsy(uid) /\ me # NoUser

\* The guard of the authenticated decorator: not api.user_id and not api._me.
NotAuthenticated(uid, me) == Falsy(uid) /\ me = NoUser

\* requests' Response.raise_for_status raises HTTPError for 4xx and 5xx only.
RaisesForStatus(status) == status >= 400 /\ status < 600

\* A decode policy without the not-found branch.
GetDataMut(status, body) ==
    IF status # 200 /\ RaisesForStatus(status)
    THEN [exc |-> "HTTPError", data |-> "None"]
    ELSE [exc |-> "none", data |-> IF body = "nonjson" THEN "None" ELSE body]

\* Api.__get_data: [exc, data], data being "None", "empty" or "object".
GetData(status, body) ==
    IF status = 401 /\ RaisesForStatus(status)
    THEN [exc |-> "HTTPError", data |-> "None"]
    ELSE IF status = 404
    THEN [exc |-> "none", data |-> "None"]
    ELSE IF status # 401 /\ status # 200 /\ RaisesForStatus(status)
    THEN [exc |-> "HTTPError", data |-> "None"]
    ELSE [exc |-> "none", data |-> IF body = "nonjson" THEN "None" ELSE body]

\* Api.__build_response for model class type and the resource id: [exc, obj].
BuildResponse(type, id, status, body) ==
    LET d == GetData(status, body) IN
    IF d.exc # "none" THEN [exc |-> d.exc, obj |-> NoUser]
    ELSE IF d.data \in {"None", "empty"} THEN [exc |-> "none", obj |-> NoUser]
    ELSE [exc |-> "none", obj |-> NewObject(type, id)]

\* A me property that ignores its cache.
MeNeedsFetchMut(uid, me) == ~Falsy(uid)

\* The first branch of the me property: not self._me and self.user_id.
MeNeedsFetch(uid, me) == me = NoUser /\ ~Falsy(uid)

\* The me property: [exc, obj, me, reqs], obj the value returned and me the
\* new value of _me.
MeResult(uid, me, status, body) ==
    IF MeNeedsFetch(uid, me)
    THEN LET r == BuildResponse("User", uid, status, body) IN
         IF r.exc # "none"
         THEN [exc |-> r.exc, obj |-> NoUser, me |-> me, reqs |-> 1]
         ELSE [exc |-> "none", obj |-> r.obj, me |-> r.obj, reqs |-> 1]
    ELSE IF me = NoUser /\ Falsy(uid)
    THEN [exc |-> "none", obj |-> NoUser, me |-> me, reqs |-> 0]
    ELSE [exc |-> "none", obj |-> me, me |-> me, reqs |-> 0]

\* A branch that does not catch a body that fails to parse.
AuthBranchUnguarded(status, body) ==
    IF status = 401 THEN "rejected"
    ELSE IF status = 201 THEN "success"
    ELSE "fallthrough"

\* An exchange that takes a rejection for a success.
AuthBranchMut(status, body) ==
    IF body = "nonjson" THEN "unparseable"
    ELSE IF status = 401 /\ ~HasKey(body, "access_token") THEN "rejected"
    ELSE IF status \in {201, 401} THEN "success"
    ELSE "fallthrough"

\* The branch Api.authenticate takes on a response.
AuthBranch(status, body) ==
    IF body = "nonjson" THEN "unparseable"
    ELSE IF status = 401 THEN "rejected"
    ELSE IF status = 201 THEN "success"
    ELSE "fallthrough"

\* Api.authenticate on a response with the given status, body and X-User-Id
\* header, tok being the access_token of the body when it has one:
\* [exc, ret, user_id, token, session].
AuthResult(status, body, hdr, tok) ==
    LET same == [exc |-> "none", ret |-> "None", user_id |-> user_id,
                 token |-> token, session |-> session]
        branch == AuthBranch(status, body)
        n == IntOfHeader(hdr)
    IN
    IF branch = "unparseable" THEN [same EXCEPT !.exc = "AuthenticationError"]
    ELSE IF branch = "rejected"
    THEN IF HasKey(body, "error_description")
         THEN [same EXCEPT !.exc = "AuthenticationError"]
         ELSE [same EXCEPT !.exc = "KeyError"]
    ELSE IF branch = "success"
    THEN IF ~HasKey(body, "access_token")
         THEN [same EXCEPT !.exc = "KeyError",
                           !.session = [kind |-> "requests", auth |-> "None"]]
         ELSE IF n.exc # "none"
         THEN [same EXCEPT !.exc = n.exc, !.token = tok,
                           !.session = [kind |-> "requests", auth |-> tok]]
         ELSE [same EXCEPT !.ret = tok, !.token = tok, !.user_id = n.value,
                           !.session = [kind |-> "requests", auth |-> tok]]
    ELSE same

----------------------------------------------------------------------------
(* The pagination generator, Api.__pager. *)

\* What the server answers for a page: a list of len items, an answer
\* __get_multiple turns into None (404, or a body that is not JSON), or a
\* status that raise_for_status raises on.
PageAnswers ==
    {[kind |-> "items", len |-> n] : n \in 0..MaxPageLen}
        \cup {[kind |-> "absent", len |-> 0], [kind |-> "error", len |-> 0]}

\* Pages past MaxPage are empty.
EmptyPage == [kind |-> "items", len |-> 0]

AnswerFor(f, page) == IF page \in DOMAIN f THEN f[page] ELSE EmptyPage

\* The i-th item of page p, as the server sends it.
Item(p, i) == <<p, i>>

\* Api.__get_multiple for one page: [exc, items], items <<>> standing for
\* both None and an empty list.
GetMultiple(f, page) ==
    LET a == AnswerFor(f, page) IN
    IF a.kind = "error" THEN [exc |-> "HTTPError", items |-> <<>>]
    ELSE IF a.kind = "absent" THEN [exc |-> "none", items |-> <<>>]
    ELSE [exc |-> "none", items |-> [i \in 1..a.len |-> Item(page, i)]]

Handles == {"h1", "h2"}

\* A generator object: where it is suspended (state, page, items, idx) and,
\* as history, the page it was started at, the pages it requested and the
\* items it yielded, and how often next() on it ended in StopIteration or in
\* an exception.
NoPager ==
    [state |-> "none", page |-> 0, items |-> <<>>, idx |-> 0,
     start |-> 0, requested |-> <<>>, yielded |-> <<>>, stops |-> 0]

\* A generator taken for finished only after an exception.
ExhaustedMut(g) == g.state = "failed"

\* The generator function has returned (break) or raised: next() on the
\* generator object runs no more of its code.
Exhausted(g) == g.state \in {"done", "failed"}

\* A call that starts every generator at the first page.
FirstPageMut(start) == 1

\* The page argument that shows, episodes and user_queue hand to __pager.
FirstPage(start) == start

\* A generator that does not step to the next page.
NextPageMut(page) == page

\* page += 1
NextPage(page) == page + 1

\* A generator that asks for the next page while an item of the current one
\* is still to be yielded.
HasBufferedMut(g) == g.state = "suspended" /\ g.idx + 1 < Len(g.items)

\* for item in items: yield item -- the generator, resumed inside the loop,
\* has an item of the current page left.
HasBuffered(g) == g.state = "suspended" /\ g.idx < Len(g.items)

\* next() on generator g: the generator runs to its next yield, to its end
\* or to an exception.
PagerNext(g, f) ==
    IF Exhausted(g) THEN [g EXCEPT !.stops = g.stops + 1]
    ELSE IF HasBuffered(g)
    THEN [g EXCEPT !.idx = g.idx + 1,
                   !.yielded = Append(g.yielded, g.items[g.idx + 1])]
    ELSE LET page == IF g.state = "suspended" THEN NextPage(g.page) ELSE g.page
             r == GetMultiple(f, page)
             req == Append(g.requested, page)
         IN
         IF r.exc # "none"
         THEN [g EXCEPT !.state = "failed", !.page = page, !.requested = req,
                        !.stops = 1]
         ELSE IF r.items # <<>>
         THEN [g EXCEPT !.state = "suspended", !.page = page, !.items = r.items,
                        !.idx = 1, !.requested = req,
                        !.yielded = Append(g.yielded, r.items[1])]
         ELSE [g EXCEPT !.state = "done", !.page = page, !.requested = req,
                        !.stops = 1]

----------------------------------------------------------------------------
(* The state of the resources when none has been built. *)

\* The lazy relations of the resources other than the queue.
Relations ==
    {"Episode.season", "Season.show", "Season.episodes", "Show.seasons",
     "Show.episodes"}

\* An Episode, a Season, a Show and a User as their constructors leave them:
\* no relation loaded. season_show is the _show of the Season object that
\* the episode holds in _season.
NewObjs ==
    [episode |-> [_season |-> "None", season_show |-> "None", is_watched |-> FALSE],
     season |-> [_show |-> "None", _episodes |-> "None"],
     show |-> [_seasons |-> "None", _episodes |-> "None"],
     user |-> NewUser(1)]

\* The resources (objs), whether they were built with an api (api), and as
\* history the last call on one of them (op, exc, reqs), the resources
\* before it (pre) and the relations whose fetch has returned before
\* (fetched, and preFetched as it was before the call).
NoLazy ==
    [op |-> "none", exc |-> "none", reqs |-> 0, api |-> FALSE,
     ret |-> "None", lookups |-> <<>>,
     objs |-> NewObjs, pre |-> NewObjs,
     fetched |-> [r \in Relations |-> FALSE],
     preFetched |-> [r \in Relations |-> FALSE]]

\* A node of a JSON document: a key that is absent, null, a scalar, or an
\* object whose one key of interest is absent (val "absent") or holds val.
Node(kind, val) == [kind |-> kind, val |-> val]

AbsentNode == Node("absent", "none")

\* A picture entry of a JSON document: absent, null, an object without a
\* type, of another type, of type picture without content, or of type
\* picture with the given labels in its content.
Pic(kind, labels) == [kind |-> kind, labels |-> labels]

AbsentPic == Pic("absent", {})

\* A JSON document without any key.
EmptyJson ==
    [id |-> AbsentNode, label |-> AbsentNode, group |-> AbsentNode,
     profilePicture |-> AbsentPic, coverPicture |-> AbsentPic]

\* No object: construction has failed or has not happened.
NoObject ==
    [type |-> "NoneType", api |-> FALSE,
     attrs |-> [id_ |-> "None", label |-> "None", leaf |-> "None"],
     _thumbnail |-> [set |-> FALSE, labels |-> {}],
     _cover_picture |-> [set |-> FALSE, labels |-> {}]]

\* The last operation on resources built from JSON: its inputs (type, json,
\* api, and type2, json2, api2 of a second resource, label), the resources
\* built (obj, obj2), and its outcome (exc, ret).
NoBuilt ==
    [op |-> "none", exc |-> "none", ret |-> "None", label |-> "none",
     type |-> "NoneType", json |-> EmptyJson, api |-> FALSE, obj |-> NoObject,
     type2 |-> "NoneType", json2 |-> EmptyJson, api2 |-> FALSE, obj2 |-> NoObject]

\* A Video as Video.__init__ leaves it, for a playlist with no rendition:
\* the playlist's renditions by label (table), _available_qualities (set
\* once it is a dict, with its labels), selected_quality, and as history the
\* last call (op, arg, exc, ret, and reqs, the loads of the playlist it
\* made), the label last selected with success (selected), whether a load
\* of the playlist has completed (loaded), and _available_qualities,
\* selected_quality and loaded as they were before the last call.
NoVideo ==
    [table |-> {}, _available_qualities |-> [set |-> FALSE, labels |-> {}],
     selected_quality |-> "None", selected |-> "None", loaded |-> FALSE,
     op |-> "none", arg |-> "None", exc |-> "none", ret |-> "None", reqs |-> 0,
     pre_available |-> [set |-> FALSE, labels |-> {}],
     pre_selected_quality |-> "None", pre_loaded |-> FALSE]

\* No search has been made.
NoSearch ==
    [op |-> "none", status |-> 0, body |-> "none", buckets |-> <<>>,
     include |-> [given |-> FALSE, types |-> {}],
     exc |-> "none", ret |-> "None", items |-> <<>>]

\* A list attribute: unset (None) or a list.
Unset == [set |-> FALSE, list |-> <<>>]

ListOf(list) == [set |-> TRUE, list |-> list]

\* No Show is held; nothing has been read.
NoShown ==
    [catalog |-> <<>>, _seasons |-> Unset, _episodes |-> Unset,
     op |-> "none", exc |-> "none", ret |-> Unset, trail |-> <<>>,
     failed |-> FALSE, pre_seasons |-> Unset, pre_episodes |-> Unset]

\* The references to User objects of the acting user that a caller can
\* hold: the one me returns, one fetched with user(id), and one that me
\* returned before update_user_details replaced it.
UserRefs == {"me", "other", "old"}

\* No User object is held.  stale[k] is history: a queue write of the Api
\* has returned since object k last fetched the queue it holds.
NoUsers ==
    [objs |-> [k \in UserRefs |-> NoUser], stale |-> [k \in UserRefs |-> FALSE],
     op |-> "none", ref |-> "none", exc |-> "none", reqs |-> 0,
     pre_stale |-> FALSE]

\* A section of the media JSON that is not there.
NoSection == [present |-> FALSE, items |-> <<>>]

\* No MediaGroup: the value None of Episode.mediagroup.
NoGroup == [set |-> FALSE, videos |-> <<>>, audio |-> <<>>, links |-> <<>>]

\* No Episode has been built.
NoMedia ==
    [built |-> FALSE,
     json |-> [media |-> FALSE, videos |-> NoSection, audioFiles |-> NoSection,
               links |-> NoSection],
     mediagroup |-> NoGroup,
     op |-> "none", exc |-> "none", ret |-> [kind |-> "None", list |-> <<>>]]

\* The caller has kept no token.  reused is history: the present Api was
\* constructed with the token kept.
NoSaved == [token |-> "None", user |-> NoId, reused |-> FALSE]

InitMore ==
    /\ shown = NoShown
    /\ users = NoUsers
    /\ media = NoMedia
    /\ saved = NoSaved

InitModels ==
    /\ lazy = NoLazy
    /\ built = NoBuilt
    /\ video = NoVideo
    /\ found = NoSearch
    /\ InitMore

----------------------------------------------------------------------------
(* The operations of the Api. *)

InitApi ==
    /\ constructed = FALSE
    /\ user_id = NoId
    /\ _me = NoUser
    /\ token = "None"
    /\ session = [kind |-> "none", auth |-> "None"]
    /\ authed = FALSE
    /\ meFetched = FALSE
    /\ last = NoCall

\* Api(api_key): no token is fetched.
ApiInitKey(api_key) ==
    /\ Idle
    /\ ~constructed
    /\ token' = api_key
    /\ session' = [kind |-> "requests", auth |-> api_key]
    /\ last' = [Call("__init__(api_key)") EXCEPT !.ret = api_key]
    /\ constructed' = TRUE
    /\ user_id' = NoId
    /\ _me' = NoUser
    /\ meFetched' = FALSE
    /\ UNCHANGED <<authed, fetches, feed, pager, lazy, built, video, found>>

ApiInitWithKey ==
    /\ \E api_key \in Tokens : ApiInitKey(api_key)
    /\ UNCHANGED moreVars

\* Api(): the token is fetched by _get_token, whose attempts are answered by
\* outcomes; when that raises, no Api exists.
ApiInitOn(outcomes) ==
    /\ Idle
    /\ ~constructed
    /\ \E tok \in Tokens :
        LET r == GetTokenFrom(outcomes, 1) IN
        /\ last' = [Call("__init__") EXCEPT !.exc = r.exc, !.reqs = r.reqs,
                        !.ret = IF r.exc = "none" THEN tok ELSE "None"]
        /\ IF r.exc = "none"
           THEN /\ token' = tok
                /\ session' = [kind |-> "oauth", auth |-> tok]
                /\ constructed' = TRUE
           ELSE UNCHANGED <<token, session, constructed>>
    /\ user_id' = NoId
    /\ _me' = NoUser
    /\ meFetched' = FALSE
    /\ UNCHANGED <<authed, fetches, feed, pager, lazy, built, video, found, moreVars>>

\* The loop makes at most MaxTokenAttempts fetches, so their outcomes decide
\* the call.
ApiInit ==
    \E outcomes \in [1..MaxTokenAttempts -> FetchOutcomes] : ApiInitOn(outcomes)

\* api._get_token() on a constructed Api.
GetTokenOn(outcomes) ==
    /\ Idle
    /\ constructed
    /\ \E tok \in Tokens :
        LET r == GetTokenFrom(outcomes, 1) IN
        /\ last' = [Call("_get_token") EXCEPT !.exc = r.exc, !.reqs = r.reqs,
                        !.ret = IF r.exc = "none" THEN tok ELSE "None"]
        /\ IF r.exc = "none"
           THEN /\ token' = tok
                /\ session' = [kind |-> "oauth", auth |-> "None"]
                /\ _me' = NoUser
           ELSE UNCHANGED <<token, session, _me>>
    /\ meFetched' = FALSE
    /\ UNCHANGED <<constructed, user_id>>
    /\ UNCHANGED <<authed, fetches, feed, pager, lazy, built, video, found, moreVars>>

Authenticate ==
    /\ Idle
    /\ constructed
    /\ \E status \in AuthStatuses, body \in AuthBodies, hdr \in HeaderValues,
          tok \in Tokens :
        /\ LET r == AuthResult(status, body, hdr, tok) IN
           /\ last' = [Call("authenticate") EXCEPT !.exc = r.exc, !.ret = r.ret,
                           !.reqs = 1, !.status = status, !.body = body,
                           !.hdr = hdr]
           /\ user_id' = r.user_id
           /\ token' = r.token
           /\ session' = r.session
           /\ authed' = (authed \/ (r.exc = "none" /\ r.ret # "None"))
    /\ meFetched' = FALSE
    /\ UNCHANGED <<constructed, _me>>
    /\ UNCHANGED pagerVars
    /\ UNCHANGED modelVars

Me ==
    /\ Idle
    /\ constructed
    /\ \E status \in ReadStatuses, body \in Bodies :
        LET r == MeResult(user_id, _me, status, body) IN
        /\ last' = [Call("me") EXCEPT !.exc = r.exc, !.obj = r.obj, !.reqs = r.reqs,
                        !.status = IF r.reqs = 0 THEN 0 ELSE status,
                        !.body = IF r.reqs = 0 THEN "none" ELSE body]
        /\ _me' = r.me
        /\ meFetched' = (meFetched \/ r.reqs > 0)
    /\ UNCHANGED <<constructed, user_id, token, session>>
    /\ UNCHANGED <<authed, fetches, feed, pager, lazy, built, video, found, moreVars>>

\* A single-resource read: episode, season, show or user.
Read(op, type) ==
    /\ Idle
    /\ constructed
    /\ \E id \in IF type = "User" THEN UserIds ELSE ResourceIds,
          status \in ReadStatuses, body \in Bodies :
        LET r == BuildResponse(type, id, status, body) IN
        last' = [Call(op) EXCEPT !.exc = r.exc, !.obj = r.obj, !.reqs = 1,
                    !.status = status, !.body = body, !.arg = id]
    /\ UNCHANGED <<constructed, user_id, _me, token, session, meFetched>>
    /\ UNCHANGED <<authed, fetches, feed, pager, lazy, built, video, found, moreVars>>

Episode == Read("episode", "Episode")

Season == Read("season", "Season")

Show == Read("show", "Show")

User == Read("user", "User")

\* add_episode_to_queue and remove_episode_from_queue: the request, then
\* self.me.queue_dirty = True, which reads the me property.
QueueWrite(op) ==
    /\ Idle
    /\ constructed
    /\ \E id \in ResourceIds, status \in WriteStatuses,
          status2 \in ReadStatuses, body2 \in Bodies :
        LET c == [Call(op) EXCEPT !.arg = id]
            m == MeResult(user_id, _me, status2, body2)
        IN
        IF NotAuthenticated(user_id, _me)
        THEN /\ last' = [c EXCEPT !.exc = "NotAuthenticatedError"]
             /\ UNCHANGED <<_me, meFetched>>
        ELSE IF RaisesForStatus(status)
        THEN /\ last' = [c EXCEPT !.exc = "HTTPError", !.reqs = 1, !.status = status]
             /\ UNCHANGED <<_me, meFetched>>
        ELSE /\ last' = [c EXCEPT !.reqs = 1 + m.reqs, !.status = status,
                            !.exc = IF m.exc # "none" THEN m.exc
                                    ELSE IF m.obj = NoUser THEN "AttributeError"
                                    ELSE "none"]
             /\ _me' = IF m.exc = "none" /\ m.obj # NoUser
                       THEN [m.me EXCEPT !.queue_dirty = TRUE]
                       ELSE m.me
             /\ meFetched' = (meFetched \/ m.reqs > 0)
    /\ UNCHANGED <<constructed, user_id, token, session>>
    /\ UNCHANGED <<authed, fetches, feed, pager, lazy, built, video, found, moreVars>>

AddEpisodeToQueue == QueueWrite("add_episode_to_queue")

\* What list(api.user_queue(id)) comes to: the episodes of the queue, an
\* empty list, or the HTTPError of one of its requests.
QueueAnswers == {"items", "empty", "error"}

\* A queue property that overlooks the dirty flag.
QueueNeedsFetchMut(u) == u._queue \in {"None", "empty"}

\* if not self._queue or self.queue_dirty
QueueNeedsFetch(u) == u._queue \in {"None", "empty"} \/ u.queue_dirty

\* User.queue on user object u: [exc, user, ret, reqs], reqs counting the
\* fetches of the queue.
UserQueueResult(u, answer) ==
    IF ~QueueNeedsFetch(u)
    THEN [exc |-> "none", user |-> u, ret |-> u._queue, reqs |-> 0]
    ELSE IF answer = "error"
    THEN [exc |-> "HTTPError", user |-> u, ret |-> "None", reqs |-> 1]
    ELSE [exc |-> "none",
          user |-> [u EXCEPT !._queue = answer, !.queue_dirty = FALSE],
          ret |-> answer, reqs |-> 1]

\* A read of the queue property of the current user object.
UserQueue ==
    /\ Idle
    /\ constructed
    /\ _me # NoUser
    /\ \E answer \in QueueAnswers :
        LET r == UserQueueResult(_me, answer) IN
        /\ last' = [Call("queue") EXCEPT !.exc = r.exc, !.ret = r.ret,
                        !.reqs = r.reqs, !.obj = r.user,
                        !.body = IF r.reqs = 0 THEN "none" ELSE answer]
        /\ _me' = r.user
    /\ UNCHANGED <<constructed, user_id, token, session, meFetched>>
    /\ UNCHANGED <<authed, fetches, feed, pager, lazy, built, video, found, moreVars>>

RemoveEpisodeFromQueue == QueueWrite("remove_episode_from_queue")

MarkEpisodeWatched ==
    /\ Idle
    /\ constructed
    /\ \E id \in ResourceIds, status \in WriteStatuses :
        LET c == [Call("mark_episode_watched") EXCEPT !.arg = id] IN
        last' = IF NotAuthenticated(user_id, _me)
                THEN [c EXCEPT !.exc = "NotAuthenticatedError"]
                ELSE [c EXCEPT !.reqs = 1, !.status = status,
                         !.exc = IF RaisesForStatus(status) THEN "HTTPError" ELSE "none"]
    /\ UNCHANGED <<constructed, user_id, _me, token, session, meFetched>>
    /\ UNCHANGED <<authed, fetches, feed, pager, lazy, built, video, found, moreVars>>

\* A decorator that runs the method whether or not there is an api.
ApiMethodMut(api) == TRUE

\* api_method: the method runs only if args[0]._api is true.
ApiMethod(api) == api

\* An update that is sent whoever the user is.
OtherUserMut(id, uid) == FALSE

\* if user_id != self.user_id
OtherUser(id, uid) == id # uid

\* An update in place: the object that _me holds is kept and changed.
UpdatedMeMut(me, id, body) ==
    LET changed == IF me = NoUser
                   THEN NewUser(IF body = "empty" THEN NoId ELSE id)
                   ELSE [me EXCEPT !.id_ = IF body = "empty" THEN NoId ELSE id]
    IN [me |-> changed, held |-> changed, fresh |-> FALSE]

\* self._me = models.User(response.json(), self): me is the new value of
\* _me, a new object (fresh), and held is the object that _me held before,
\* as the statement leaves it.
UpdatedMe(me, id, body) ==
    [me |-> NewUser(IF body = "empty" THEN NoId ELSE id), held |-> me,
     fresh |-> TRUE]

\* Api.update_user_details(id) on a response: [exc, me, held, fresh, reqs,
\* status, body], status and body being those of the response as far as the
\* call has read it.
UpdateResult(uid, me, id, status, body) ==
    LET same == [exc |-> "none", me |-> me, held |-> me, fresh |-> FALSE,
                 reqs |-> 0, status |-> 0, body |-> "none"]
        u == UpdatedMe(me, id, body)
    IN
    IF NotAuthenticated(uid, me) \/ OtherUser(id, uid)
    THEN [same EXCEPT !.exc = "NotAuthenticatedError"]
    ELSE IF RaisesForStatus(status)
    THEN [same EXCEPT !.exc = "HTTPError", !.reqs = 1, !.status = status]
    ELSE IF body = "nonjson"
    THEN [same EXCEPT !.exc = "ValueError", !.reqs = 1, !.status = status,
                      !.body = body]
    ELSE [same EXCEPT !.me = u.me, !.held = u.held, !.fresh = u.fresh,
                      !.reqs = 1, !.status = status, !.body = body]

\* The call c of an update of user id ends as r says.
Updated(c, id, r) ==
    /\ last' = [c EXCEPT !.arg = id, !.exc = r.exc, !.reqs = r.reqs,
                         !.status = r.status, !.body = r.body,
                         !.held = r.held, !.fresh = r.fresh]
    /\ _me' = r.me

UpdateUserDetails ==
    /\ Idle
    /\ constructed
    /\ \E id \in UserIds, status \in WriteStatuses, body \in Bodies :
        Updated([Call("update_user_details") EXCEPT !.api = TRUE], id,
                UpdateResult(user_id, _me, id, status, body))
    /\ meFetched' = FALSE
    /\ UNCHANGED <<constructed, user_id, token, session>>
    /\ UNCHANGED <<authed, fetches, feed, pager, lazy, built, video, found, moreVars>>

\* User.update on a user object of id id_, built with this Api or without
\* one: under api_method, the call of update_user_details(self.id_).
UserObjectUpdate ==
    /\ Idle
    /\ constructed
    /\ \E id \in UserIds \cup {NoId}, api \in BOOLEAN,
          status \in WriteStatuses, body \in Bodies :
        LET c == [Call("User.update") EXCEPT !.api = api] IN
        IF ~ApiMethod(api)
        THEN /\ last' = [c EXCEPT !.arg = id, !.exc = "NotImplementedError",
                                  !.held = _me]
             /\ UNCHANGED _me
        ELSE Updated(c, id, UpdateResult(user_id, _me, id, status, body))
    /\ meFetched' = FALSE
    /\ UNCHANGED <<constructed, user_id, token, session>>
    /\ UNCHANGED <<authed, fetches, feed, pager, lazy, built, video, found, moreVars>>

\* search: the request, then the loop over the decoded buckets, which fails
\* on None.
Search ==
    /\ Idle
    /\ constructed
    /\ \E status \in ReadStatuses, body \in Bodies :
        LET d == GetData(status, body) IN
        last' = [Call("search") EXCEPT !.reqs = 1, !.status = status, !.body = body,
                    !.exc = IF d.exc # "none" THEN d.exc
                            ELSE IF d.data = "None" THEN "TypeError"
                            ELSE "none",
                    !.ret = IF d.exc = "none" /\ d.data # "None" THEN "list" ELSE "None"]
    /\ UNCHANGED <<constructed, user_id, _me, token, session, meFetched>>
    /\ UNCHANGED <<authed, fetches, feed, pager, lazy, built, video, found, moreVars>>

\* The caller takes the result of the last call; the next call can begin.
Return ==
    /\ ~Idle
    /\ last' = NoCall
    /\ UNCHANGED <<constructed, user_id, _me, token, session, meFetched>>
    /\ UNCHANGED <<authed, fetches, feed, pager, lazy, built, video, found, moreVars>>

GetToken ==
    \E outcomes \in [1..MaxTokenAttempts -> FetchOutcomes] : GetTokenOn(outcomes)

Init ==
    /\ InitApi
    /\ fetches = <<>>
    /\ feed = <<>>
    /\ pager = [h \in Handles |-> NoPager]
    /\ InitModels

Next ==
    \/ ApiInitWithKey
    \/ ApiInit
    \/ GetToken
    \/ Authenticate
    \/ Me
    \/ Episode
    \/ Season
    \/ Show
    \/ User
    \/ AddEpisodeToQueue
    \/ RemoveEpisodeFromQueue
    \/ UserQueue
    \/ MarkEpisodeWatched
    \/ UpdateUserDetails
    \/ UserObjectUpdate
    \/ Search
    \/ Return

Spec == Init /\ [][Next]_vars

----------------------------------------------------------------------------
(* The generator, driven on its own against a server whose pages are fixed. *)

\* api.shows(page=start), api.episodes(page=start) or
\* api.user_queue(id, page=start): a new generator; nothing is requested.
NewPager ==
    \E h \in Handles, start \in 1..MaxStartPage :
        /\ pager' = [pager EXCEPT ![h] =
                        [NoPager EXCEPT !.state = "created",
                                        !.page = FirstPage(start),
                                        !.start = start]]
        /\ UNCHANGED <<fetches, feed>>
        /\ UNCHANGED apiVars
        /\ UNCHANGED modelVars

\* next(g)
ResumePager ==
    \E h \in Handles :
        /\ pager[h].state # "none"
        /\ pager[h].stops < MaxStops
        /\ pager' = [pager EXCEPT ![h] = PagerNext(pager[h], feed)]
        /\ UNCHANGED <<fetches, feed>>
        /\ UNCHANGED apiVars
        /\ UNCHANGED modelVars

InitPager ==
    /\ InitApi
    /\ fetches = <<>>
    /\ feed \in [1..MaxPage -> PageAnswers]
    /\ pager = [h \in Handles |-> NoPager]
    /\ InitModels

NextPager ==
    \/ NewPager
    \/ ResumePager

SpecPager == InitPager /\ [][NextPager]_vars

----------------------------------------------------------------------------
(* Token acquisition, driven on its own against a provider whose answers   *)
(* to the attempts of a call are fixed.                                    *)

TokenApiInit == ApiInitOn(fetches)

TokenGetToken == GetTokenOn(fetches)

InitToken ==
    /\ InitApi
    /\ fetches \in [1..OutcomeLen -> FetchOutcomes]
    /\ feed = <<>>
    /\ pager = [h \in Handles |-> NoPager]
    /\ InitModels

NextToken ==
    \/ ApiInitWithKey
    \/ TokenApiInit
    \/ TokenGetToken
    \/ Return

SpecToken == InitToken /\ [][NextToken]_vars

----------------------------------------------------------------------------
(* The resources of rt_api/models.py and their lazy relations, driven on   *)
(* their own: every fetch is answered by a value, by None or by an error.  *)

\* What an Api read gives a resource: an object or a non-empty list
\* ("value"), None, or an HTTPError.
LazyAnswers == {"value", "None", "error"}

\* What an Api write called by a resource does.
ApiOutcomes == {"ok", "NotAuthenticatedError", "HTTPError"}

\* if not self._season, if not self._seasons, ...: None and the empty list
\* are both false.
NeedsLoad(cache) == cache \in {"None", "empty"}

\* A lazy accessor on a cache: [exc, cache, reqs].
LoadOne(cache, answer) ==
    IF ~NeedsLoad(cache) THEN [exc |-> "none", cache |-> cache, reqs |-> 0]
    ELSE IF answer = "error" THEN [exc |-> "HTTPError", cache |-> cache, reqs |-> 1]
    ELSE [exc |-> "none", cache |-> answer, reqs |-> 1]

\* The call op ends with exc after reqs fetches, leaving the resources as
\* objs2; done are the relations whose fetch has returned in it.
LazyCall(op, exc, reqs, objs2, done) ==
    lazy' = [lazy EXCEPT !.op = op, !.exc = exc, !.reqs = reqs,
                         !.ret = "None", !.lookups = <<>>,
                         !.pre = lazy.objs, !.objs = objs2,
                         !.preFetched = lazy.fetched,
                         !.fetched = [r \in Relations |->
                                         lazy.fetched[r] \/ r \in done]]

LazyIdle == lazy.op = "none"

\* Episode.season, Season.show, Season.episodes and Show.seasons: a property
\* under api_method that loads its cache when the cache is false.
LazyRead(rel, obj, field) ==
    /\ LazyIdle
    /\ \E answer \in LazyAnswers :
        LET r == LoadOne(lazy.objs[obj][field], answer) IN
        IF ~ApiMethod(lazy.api)
        THEN LazyCall(rel, "NotImplementedError", 0, lazy.objs, {})
        ELSE LazyCall(rel, r.exc, r.reqs,
                      [lazy.objs EXCEPT ![obj][field] = r.cache],
                      IF r.reqs = 1 /\ r.exc = "none" THEN {rel} ELSE {})
    /\ UNCHANGED <<apiVars, pagerVars, built, video, found, moreVars>>

EpisodeSeason == LazyRead("Episode.season", "episode", "_season")

SeasonShow == LazyRead("Season.show", "season", "_show")

SeasonEpisodes == LazyRead("Season.episodes", "season", "_episodes")

ShowSeasons == LazyRead("Show.seasons", "show", "_seasons")

\* A lookup of the Api and what it gives.
Lookup1(call, answer) == [call |-> call, answer |-> answer]

\* A show property that asks the Api for the show of the episode's own
\* show_id.
EpisodeShowLookupsMut(r1, a1, r2, a2) ==
    IF r1.reqs + r2.reqs > 0 THEN <<Lookup1("show(episode.show_id)", a2)>> ELSE <<>>

\* The lookups of return self.season.show, r1 being the load of the season
\* and r2 that of its show: season(self.season_id) when the episode holds
\* no season, then show(self.show_id) of the season when it holds no show.
EpisodeShowLookups(r1, a1, r2, a2) ==
    (IF r1.reqs = 1 THEN <<Lookup1("season(episode.season_id)", a1)>> ELSE <<>>)
        \o (IF r1.exc = "none" /\ r1.cache # "None" /\ r2.reqs = 1
            THEN <<Lookup1("show(season.show_id)", a2)>>
            ELSE <<>>)

\* Episode.show: return self.season.show
EpisodeShow ==
    /\ LazyIdle
    /\ \E a1 \in LazyAnswers, a2 \in LazyAnswers :
        LET e == lazy.objs.episode
            r1 == LoadOne(e._season, a1)
            r2 == LoadOne(IF NeedsLoad(e._season) THEN "None" ELSE e.season_show, a2)
            d1 == IF r1.reqs = 1 /\ r1.exc = "none" THEN {"Episode.season"} ELSE {}
            lookups == EpisodeShowLookups(r1, a1, r2, a2)
            exc == IF r1.exc # "none" THEN r1.exc
                   ELSE IF r1.cache = "None" THEN "AttributeError"
                   ELSE r2.exc
            reqs == IF r1.exc # "none" \/ r1.cache = "None" THEN r1.reqs
                    ELSE r1.reqs + r2.reqs
            objs2 == IF r1.exc # "none" THEN lazy.objs
                     ELSE IF r1.cache = "None"
                     THEN [lazy.objs EXCEPT !.episode._season = "None"]
                     ELSE [lazy.objs EXCEPT !.episode._season = r1.cache,
                                            !.episode.season_show = r2.cache]
        IN
        IF ~ApiMethod(lazy.api)
        THEN LazyCall("Episode.show", "NotImplementedError", 0, lazy.objs, {})
        ELSE lazy' = [lazy EXCEPT !.op = "Episode.show", !.exc = exc, !.reqs = reqs,
                          !.ret = IF exc = "none" THEN r2.cache ELSE "None",
                          !.lookups = lookups,
                          !.pre = lazy.objs, !.objs = objs2,
                          !.preFetched = lazy.fetched,
                          !.fetched = [r \in Relations |->
                                          lazy.fetched[r] \/ r \in d1]]
    /\ UNCHANGED <<apiVars, pagerVars, built, video, found, moreVars>>

\* Show.episodes: the property is not under api_method; it sets
\* self._episodes = [] and then reads self.seasons and the episodes of each
\* season, here of the one season of the list.
ShowEpisodes ==
    /\ LazyIdle
    /\ \E a1 \in LazyAnswers, a2 \in LazyAnswers :
        LET w == lazy.objs.show
            emptied == [lazy.objs EXCEPT !.show._episodes = "empty"]
            r1 == LoadOne(w._seasons, a1)
            d1 == IF r1.reqs = 1 /\ r1.exc = "none" THEN {"Show.seasons"} ELSE {}
            loaded == [emptied EXCEPT !.show._seasons = r1.cache]
        IN
        IF ~NeedsLoad(w._episodes)
        THEN LazyCall("Show.episodes", "none", 0, lazy.objs, {})
        ELSE IF ~ApiMethod(lazy.api)
        THEN LazyCall("Show.episodes", "NotImplementedError", 0, emptied, {})
        ELSE IF r1.exc # "none"
        THEN LazyCall("Show.episodes", r1.exc, r1.reqs, emptied, {})
        ELSE IF r1.cache = "None"
        THEN LazyCall("Show.episodes", "TypeError", r1.reqs, loaded, d1)
        ELSE IF a2 = "error"
        THEN LazyCall("Show.episodes", "HTTPError", r1.reqs + 1, loaded, d1)
        ELSE IF a2 = "None"
        THEN LazyCall("Show.episodes", "TypeError", r1.reqs + 1, loaded,
                      d1 \cup {"Show.episodes"})
        ELSE LazyCall("Show.episodes", "none", r1.reqs + 1,
                      [loaded EXCEPT !.show._episodes = "value"],
                      d1 \cup {"Show.episodes"})
    /\ UNCHANGED <<apiVars, pagerVars, built, video, found, moreVars>>

\* User.queue on a User that the caller built.
LazyUserQueue ==
    /\ LazyIdle
    /\ \E answer \in QueueAnswers :
        LET r == UserQueueResult(lazy.objs.user, answer) IN
        IF ~ApiMethod(lazy.api)
        THEN LazyCall("User.queue", "NotImplementedError", 0, lazy.objs, {})
        ELSE LazyCall("User.queue", r.exc, r.reqs,
                      [lazy.objs EXCEPT !.user = r.user], {})
    /\ UNCHANGED <<apiVars, pagerVars, built, video, found, moreVars>>

\* User.update, Episode.add_to_queue and Episode.remove_from_queue: the
\* call of the Api write, whose outcome is the method's.
RemoteWrite(op) ==
    /\ LazyIdle
    /\ \E outcome \in ApiOutcomes :
        IF ~ApiMethod(lazy.api)
        THEN LazyCall(op, "NotImplementedError", 0, lazy.objs, {})
        ELSE LazyCall(op, IF outcome = "ok" THEN "none" ELSE outcome,
                      IF outcome = "NotAuthenticatedError" THEN 0 ELSE 1,
                      lazy.objs, {})
    /\ UNCHANGED <<apiVars, pagerVars, built, video, found, moreVars>>

UserUpdate == RemoteWrite("User.update")

EpisodeAddToQueue == RemoteWrite("Episode.add_to_queue")

EpisodeRemoveFromQueue == RemoteWrite("Episode.remove_from_queue")

\* A method that sets the flag before it calls the Api.
WatchedAfterMut(was, outcome) == TRUE

\* self._api.mark_episode_watched(self.id_); self.is_watched = True: the
\* assignment is reached only when the call has returned.
WatchedAfter(was, outcome) == IF outcome = "ok" THEN TRUE ELSE was

\* Episode.mark_as_watched: the Api write, then self.is_watched = True.
EpisodeMarkAsWatched ==
    /\ LazyIdle
    /\ \E outcome \in ApiOutcomes :
        IF ~ApiMethod(lazy.api)
        THEN LazyCall("Episode.mark_as_watched", "NotImplementedError", 0,
                      lazy.objs, {})
        ELSE LazyCall("Episode.mark_as_watched",
                      IF outcome = "ok" THEN "none" ELSE outcome,
                      IF outcome = "NotAuthenticatedError" THEN 0 ELSE 1,
                      [lazy.objs EXCEPT !.episode.is_watched =
                                           WatchedAfter(@, outcome)], {})
    /\ UNCHANGED <<apiVars, pagerVars, built, video, found, moreVars>>

\* The caller takes the result of the call.
LazyReturn ==
    /\ ~LazyIdle
    /\ lazy' = [lazy EXCEPT !.op = "none", !.exc = "none", !.reqs = 0,
                            !.pre = NewObjs,
                            !.preFetched = [r \in Relations |-> FALSE]]
    /\ UNCHANGED <<apiVars, pagerVars, built, video, found, moreVars>>

\* The resources are built with an api or without one.
InitLazy ==
    /\ InitApi
    /\ fetches = <<>>
    /\ feed = <<>>
    /\ pager = [h \in Handles |-> NoPager]
    /\ lazy \in {[NoLazy EXCEPT !.api = a] : a \in BOOLEAN}
    /\ built = NoBuilt
    /\ video = NoVideo
    /\ found = NoSearch
    /\ InitMore

NextLazy ==
    \/ EpisodeSeason
    \/ EpisodeShow
    \/ SeasonShow
    \/ SeasonEpisodes
    \/ ShowSeasons
    \/ ShowEpisodes
    \/ LazyUserQueue
    \/ UserUpdate
    \/ EpisodeAddToQueue
    \/ EpisodeRemoveFromQueue
    \/ EpisodeMarkAsWatched
    \/ LazyReturn

SpecLazy == InitLazy /\ [][NextLazy]_vars

----------------------------------------------------------------------------
(* Resources built from JSON: ApiObject._build, the picture tables, the    *)
(* thumbnail lookups and equality, applied to documents drawn from small   *)
(* sets.  A document has the keys id, label (title of an Episode or a      *)
(* Season, name of a Show or a User) and group (show of an Episode or a    *)
(* Season, summary of a Show, about of a User, read through the two-key    *)
(* path (group, leaf)), and the picture entries.                           *)

ResourceTypes == {"Episode", "Season", "Show", "User"}

IdNodes == {AbsentNode, Node("scalar", "v1"), Node("scalar", "v2")}

LabelNodes == {AbsentNode, Node("null", "None"), Node("scalar", "v1")}

GroupNodes ==
    {AbsentNode, Node("null", "None"), Node("scalar", "v1"),
     Node("object", "absent"), Node("object", "v1")}

Labels == {"tb", "sm", "md", "lg"}

PicKinds == {"absent", "null", "untyped", "other", "nocontent"}

Pics == {Pic(k, {}) : k \in PicKinds} \cup {Pic("picture", L) : L \in SUBSET Labels}

\* Documents without picture entries.
PlainJsons ==
    {[EmptyJson EXCEPT !.id = i, !.label = l, !.group = g] :
        i \in IdNodes, l \in LabelNodes, g \in GroupNodes}

\* self.attrs: attribute name to path.
AttrPaths ==
    [id_ |-> <<"id">>, label |-> <<"label">>, leaf |-> <<"group", "leaf">>]

\* ApiObject._get_from_dict: [exc, value].  Indexing None or a scalar
\* raises TypeError, a dict without the key KeyError.
GetFromDict(json, path) ==
    LET n == json[path[1]] IN
    IF n.kind = "absent" THEN [exc |-> "KeyError", value |-> "None"]
    ELSE IF Len(path) = 1
    THEN [exc |-> "none", value |-> IF n.kind = "object" THEN "object" ELSE n.val]
    ELSE IF n.kind \in {"null", "scalar"}
    THEN [exc |-> "TypeError", value |-> "None"]
    ELSE IF n.val = "absent" THEN [exc |-> "KeyError", value |-> "None"]
    ELSE [exc |-> "none", value |-> n.val]

\* ApiObject._build: [exc, attrs]; a KeyError makes the attribute None,
\* any other error leaves the loop.
BuildAttrs(json) ==
    LET r == [a \in DOMAIN AttrPaths |-> GetFromDict(json, AttrPaths[a])] IN
    IF \E a \in DOMAIN AttrPaths : r[a].exc = "TypeError"
    THEN [exc |-> "TypeError", attrs |-> NoObject.attrs]
    ELSE [exc |-> "none",
          attrs |-> [a \in DOMAIN AttrPaths |->
                        IF r[a].exc = "KeyError" THEN "None" ELSE r[a].value]]

\* thumbnails_json = json[key]; Thumbnail(thumbnails_json): [exc, labels].
ThumbnailOf(pic) ==
    IF pic.kind \in {"absent", "untyped", "nocontent"}
    THEN [exc |-> "KeyError", labels |-> {}]
    ELSE IF pic.kind = "null" THEN [exc |-> "TypeError", labels |-> {}]
    ELSE IF pic.kind = "other" THEN [exc |-> "none", labels |-> {}]
    ELSE [exc |-> "none", labels |-> pic.labels]

\* The classes whose __init__ calls ApiObject.__init__, which sets
\* self._thumbnail = {}.
CallsSuperInit == {"Episode", "Show", "User"}

\* Episode, Season, Show and User __init__: [exc, obj].
Build(type, json, api) ==
    LET b == BuildAttrs(json)
        t == ThumbnailOf(json.profilePicture)
        c == ThumbnailOf(json.coverPicture)
        readsPic == type \in CallsSuperInit
        readsCover == type = "Show"
    IN
    IF b.exc # "none" THEN [exc |-> b.exc, obj |-> NoObject]
    ELSE IF readsPic /\ t.exc = "TypeError" THEN [exc |-> "TypeError", obj |-> NoObject]
    ELSE IF readsCover /\ c.exc = "TypeError" THEN [exc |-> "TypeError", obj |-> NoObject]
    ELSE [exc |-> "none",
          obj |-> [type |-> type, api |-> api, attrs |-> b.attrs,
                   _thumbnail |-> [set |-> readsPic,
                                   labels |-> IF readsPic THEN t.labels ELSE {}],
                   _cover_picture |-> [set |-> readsCover,
                                       labels |-> IF readsCover THEN c.labels ELSE {}]]]

\* The URL a picture table holds for a label.
Url(label) == "url_" \o label

\* An order that prefers the largest thumbnail.
ThumbnailOrderMut == <<"lg", "md", "sm", "tb">>

\* for thumb in ["tb", "sm", "md", "lg"]
ThumbnailOrder == <<"tb", "sm", "md", "lg">>

\* for picture in ["lg", "tb", "sm", "md"]
CoverOrder == <<"lg", "tb", "sm", "md">>

RECURSIVE FirstPresent(_, _)
\* The loop of ApiObject.thumbnail and Show.cover_picture over a table.
FirstPresent(order, labels) ==
    IF order = <<>> THEN "None"
    ELSE IF Head(order) \in labels THEN Url(Head(order))
    ELSE FirstPresent(Tail(order), labels)

\* ApiObject.thumbnail: [exc, ret]; an object without _thumbnail raises
\* AttributeError.
Thumbnail(obj) ==
    IF ~obj._thumbnail.set THEN [exc |-> "AttributeError", ret |-> "None"]
    ELSE [exc |-> "none", ret |-> FirstPresent(ThumbnailOrder, obj._thumbnail.labels)]

\* Show.cover_picture; the other classes have no such attribute.
CoverPicture(obj) ==
    IF ~obj._cover_picture.set THEN [exc |-> "AttributeError", ret |-> "None"]
    ELSE [exc |-> "none", ret |-> FirstPresent(CoverOrder, obj._cover_picture.labels)]

\* Show, Episode and User get_thumbnail(quality); Season has no such method.
GetThumbnail(obj, label) ==
    IF ~obj._thumbnail.set THEN [exc |-> "AttributeError", ret |-> "None"]
    ELSE [exc |-> "none",
          ret |-> IF label \in obj._thumbnail.labels THEN Url(label) ELSE "None"]

\* An equality that looks at the type and the identifier only.
EqObjectsMut(a, b) == a.type = b.type /\ a.attrs.id_ = b.attrs.id_

\* ApiObject.__eq__: the same type and the same dict of mapped attributes.
EqObjects(a, b) ==
    /\ a.type = b.type
    /\ [k \in DOMAIN AttrPaths |-> a.attrs[k]] = [k \in DOMAIN AttrPaths |-> b.attrs[k]]

BuiltIdle == built.op = "none"

\* Episode(json, api), Season(json, api), Show(json, api), User(json, api)
BuildResource ==
    /\ BuiltIdle
    /\ \E type \in ResourceTypes, j \in PlainJsons, p \in Pics, c \in Pics,
          api \in BOOLEAN :
        LET json == [j EXCEPT !.profilePicture = p, !.coverPicture = c]
            r == Build(type, json, api)
        IN
        /\ type # "Show" => c = AbsentPic
        /\ built' = [NoBuilt EXCEPT !.op = "build", !.type = type, !.json = json,
                                    !.api = api, !.exc = r.exc, !.obj = r.obj]
    /\ UNCHANGED <<apiVars, pagerVars, lazy, video, found, moreVars>>

\* A lookup on a resource just built from a document with the given
\* picture entries.
Lookup(op, type, p, c, label, r) ==
    built' = [NoBuilt EXCEPT !.op = op, !.type = type, !.label = label,
                !.json = [EmptyJson EXCEPT !.profilePicture = p, !.coverPicture = c],
                !.obj = Build(type, [EmptyJson EXCEPT !.profilePicture = p,
                                                      !.coverPicture = c], TRUE).obj,
                !.exc = r.exc, !.ret = r.ret]

\* The picture entries from which a resource can be built.
GoodPics == {p \in Pics : p.kind # "null"}

\* resource.thumbnail
ReadThumbnail ==
    /\ BuiltIdle
    /\ \E type \in ResourceTypes, p \in GoodPics :
        LET o == Build(type, [EmptyJson EXCEPT !.profilePicture = p], TRUE).obj IN
        Lookup("thumbnail", type, p, AbsentPic, "none", Thumbnail(o))
    /\ UNCHANGED <<apiVars, pagerVars, lazy, video, found, moreVars>>

\* resource.get_thumbnail(label)
ReadGetThumbnail ==
    /\ BuiltIdle
    /\ \E type \in CallsSuperInit, p \in GoodPics, label \in Labels \cup {"xl"} :
        LET o == Build(type, [EmptyJson EXCEPT !.profilePicture = p], TRUE).obj IN
        Lookup("get_thumbnail", type, p, AbsentPic, label, GetThumbnail(o, label))
    /\ UNCHANGED <<apiVars, pagerVars, lazy, video, found, moreVars>>

\* show.cover_picture
ReadCoverPicture ==
    /\ BuiltIdle
    /\ \E p \in {AbsentPic, Pic("picture", {"tb"})}, c \in GoodPics :
        LET o == Build("Show", [EmptyJson EXCEPT !.profilePicture = p,
                                                 !.coverPicture = c], TRUE).obj IN
        Lookup("cover_picture", "Show", p, c, "none", CoverPicture(o))
    /\ UNCHANGED <<apiVars, pagerVars, lazy, video, found, moreVars>>

\* a == b for two resources that were built.
Compare ==
    /\ BuiltIdle
    /\ \E t1 \in ResourceTypes, t2 \in ResourceTypes, j1 \in PlainJsons,
          j2 \in PlainJsons, api1 \in BOOLEAN, api2 \in BOOLEAN :
        LET a == Build(t1, j1, api1)
            b == Build(t2, j2, api2)
        IN
        /\ a.exc = "none"
        /\ b.exc = "none"
        /\ api1 \/ ~api2
        /\ built' = [NoBuilt EXCEPT !.op = "eq", !.type = t1, !.json = j1,
                        !.api = api1, !.obj = a.obj, !.type2 = t2, !.json2 = j2,
                        !.api2 = api2, !.obj2 = b.obj,
                        !.ret = IF EqObjects(a.obj, b.obj) THEN "True" ELSE "False"]
    /\ UNCHANGED <<apiVars, pagerVars, lazy, video, found, moreVars>>

BuiltReturn ==
    /\ ~BuiltIdle
    /\ built' = NoBuilt
    /\ UNCHANGED <<apiVars, pagerVars, lazy, video, found, moreVars>>

InitBuilt ==
    /\ InitApi
    /\ fetches = <<>>
    /\ feed = <<>>
    /\ pager = [h \in Handles |-> NoPager]
    /\ InitModels

NextBuilt ==
    \/ BuildResource
    \/ ReadThumbnail
    \/ ReadGetThumbnail
    \/ ReadCoverPicture
    \/ Compare
    \/ BuiltReturn

SpecBuilt == InitBuilt /\ [][NextBuilt]_vars

----------------------------------------------------------------------------
(* A Video and its rendition table, loaded from the m3u8 playlist on first *)
(* use.                                                                    *)

\* The labels a playlist may offer.
Qualities == {"720P", "480P", "240P"}

\* What a caller may ask for: a label of the playlist or another.
QualityArgs == Qualities \cup {"1080P"}

\* A default that is not the documented one.
DefaultQualityMut == "480P"

\* Video.__default_quality
DefaultQuality == "720P"

\* os.path.dirname(url) + "/"
BaseUrl == "base/"

\* playlist.uri of the rendition with the given label.
Uri(q) == "NewHLS-" \o q \o ".m3u8"

\* if not self._available_qualities: None and the empty dict are false.
NeedsLoadQualities(v) ==
    ~v._available_qualities.set \/ v._available_qualities.labels = {}

\* A lookup that raises for a label the dict lacks.
MissingQualityMut(q) == "KeyError"

\* Video._get_quality for a label the dict lacks: except KeyError: pass.
MissingQuality(q) == "none"

\* A selection that stores the label whether or not the dict has it.
SelectableMut(q, labels) == TRUE

\* self._available_qualities[quality] in set_selected_quality succeeds.
Selectable(q, labels) == q \in labels

\* Video._load_available_qualities when it is needed: [exc, video, reqs].
\* The dict is emptied before m3u8.load, which may raise.
LoadQualities(v, loads) ==
    IF ~NeedsLoadQualities(v) THEN [exc |-> "none", video |-> v, reqs |-> 0]
    ELSE IF ~loads
    THEN [exc |-> "IOError", reqs |-> 1,
          video |-> [v EXCEPT !._available_qualities = [set |-> TRUE, labels |-> {}]]]
    ELSE [exc |-> "none", reqs |-> 1,
          video |-> [v EXCEPT !._available_qualities = [set |-> TRUE, labels |-> v.table],
                              !.loaded = TRUE]]

\* Video._get_quality: [exc, video, ret, reqs].
GetQualityOf(v, q, loads) ==
    LET l == LoadQualities(v, loads) IN
    IF l.exc # "none"
    THEN [exc |-> l.exc, video |-> l.video, ret |-> "None", reqs |-> l.reqs]
    ELSE IF q \in l.video._available_qualities.labels
    THEN [exc |-> "none", video |-> l.video, ret |-> BaseUrl \o Uri(q), reqs |-> l.reqs]
    ELSE [exc |-> MissingQuality(q), video |-> l.video, ret |-> "None", reqs |-> l.reqs]

\* Video.get_quality(quality), quality "None" when it is left out.
GetQualityResult(v, quality, loads) ==
    IF quality # "None" THEN GetQualityOf(v, quality, loads)
    ELSE IF v.selected_quality # "None"
    THEN [exc |-> "none", video |-> v, ret |-> BaseUrl \o v.selected_quality,
          reqs |-> 0]
    ELSE GetQualityOf(v, DefaultQuality, loads)

VideoIdle == video.op = "none"

\* The call op with argument arg begins on the video as it is.
VideoCall(v, op, arg) ==
    [v EXCEPT !.op = op, !.arg = arg,
              !.pre_available = video._available_qualities,
              !.pre_selected_quality = video.selected_quality,
              !.pre_loaded = video.loaded]

GetQuality ==
    /\ VideoIdle
    /\ \E quality \in QualityArgs \cup {"None"}, loads \in BOOLEAN :
        LET r == GetQualityResult(video, quality, loads) IN
        video' = [VideoCall(r.video, "get_quality", quality) EXCEPT
                     !.exc = r.exc, !.ret = r.ret, !.reqs = r.reqs]
    /\ UNCHANGED <<apiVars, pagerVars, lazy, built, found, moreVars>>

\* Video.set_selected_quality(quality)
SetSelectedQuality ==
    /\ VideoIdle
    /\ \E quality \in QualityArgs, loads \in BOOLEAN :
        LET l == LoadQualities(video, loads)
            c == [VideoCall(l.video, "set_selected_quality", quality) EXCEPT
                     !.reqs = l.reqs]
        IN
        video' = IF l.exc # "none" THEN [c EXCEPT !.exc = l.exc]
                 ELSE IF ~Selectable(quality, l.video._available_qualities.labels)
                 THEN [c EXCEPT !.exc = "KeyError"]
                 ELSE [c EXCEPT !.selected_quality = Uri(quality),
                                !.selected = quality]
    /\ UNCHANGED <<apiVars, pagerVars, lazy, built, found, moreVars>>

\* Video.available_qualities
AvailableQualities ==
    /\ VideoIdle
    /\ \E loads \in BOOLEAN :
        LET l == LoadQualities(video, loads) IN
        video' = [VideoCall(l.video, "available_qualities", "None") EXCEPT
                     !.exc = l.exc, !.reqs = l.reqs]
    /\ UNCHANGED <<apiVars, pagerVars, lazy, built, found, moreVars>>

VideoReturn ==
    /\ ~VideoIdle
    /\ video' = [video EXCEPT !.op = "none", !.arg = "None", !.exc = "none",
                              !.ret = "None", !.reqs = 0,
                              !.pre_available = NoVideo.pre_available,
                              !.pre_selected_quality = "None",
                              !.pre_loaded = FALSE]
    /\ UNCHANGED <<apiVars, pagerVars, lazy, built, found, moreVars>>

\* A Video for a playlist that offers some of the labels.
InitVideo ==
    /\ InitApi
    /\ fetches = <<>>
    /\ feed = <<>>
    /\ pager = [h \in Handles |-> NoPager]
    /\ lazy = NoLazy
    /\ built = NoBuilt
    /\ video \in {[NoVideo EXCEPT !.table = t] : t \in SUBSET Qualities}
    /\ found = NoSearch
    /\ InitMore

NextVideo ==
    \/ GetQuality
    \/ SetSelectedQuality
    \/ AvailableQualities
    \/ VideoReturn

SpecVideo == InitVideo /\ [][NextVideo]_vars

----------------------------------------------------------------------------
(* Api.search, applied to responses drawn from small sets.  The decoded    *)
(* body is a list of result sets (buckets), each a dict with one key and a *)
(* list of items under it.                                                 *)

\* mapping: the keys of the result sets that search knows, and their models.
SearchMapping == [episodes |-> "Episode", shows |-> "Show", users |-> "User"]

\* The key of a result set: one of the mapping or another.
BucketKeys == DOMAIN SearchMapping \cup {"seasons"}

Bucket(key, len) == [key |-> key, len |-> len]

Buckets == {Bucket(k, n) : k \in BucketKeys, n \in 0..MaxBucketLen}

\* The decoded bodies: lists of at most MaxBuckets result sets.
BucketLists == UNION {[1..n -> Buckets] : n \in 0..MaxBuckets}

\* The include argument: left out (None), or a list of model classes.
Includes ==
    {[given |-> FALSE, types |-> {}]}
        \cup {[given |-> TRUE, types |-> T] :
                  T \in SUBSET {"Episode", "Show", "User", "Season"}}

\* if include: None and the empty list are false.
IncludeFilters(include) == include.given /\ include.types # {}

\* mapping[model_key](item) for the i-th item of the b-th result set.
SearchItem(type, b, i) == [type |-> type, bucket |-> b, index |-> i]

RECURSIVE SearchItems(_, _, _)
\* The loop of search over the result sets from the b-th on.
SearchItems(data, include, b) ==
    IF b > Len(data) THEN <<>>
    ELSE LET key == data[b].key
             rest == SearchItems(data, include, b + 1)
         IN
         IF key \notin DOMAIN SearchMapping THEN rest
         ELSE IF IncludeFilters(include) /\ SearchMapping[key] \notin include.types
         THEN rest
         ELSE [i \in 1..data[b].len |-> SearchItem(SearchMapping[key], b, i)] \o rest

\* Api.search(query, include) on a response: [exc, ret, items].  Iterating
\* over None raises TypeError.
SearchResult(status, body, buckets, include) ==
    LET d == GetData(status, body) IN
    IF d.exc # "none" THEN [exc |-> d.exc, ret |-> "None", items |-> <<>>]
    ELSE IF d.data = "None" THEN [exc |-> "TypeError", ret |-> "None", items |-> <<>>]
    ELSE [exc |-> "none", ret |-> "list", items |-> SearchItems(buckets, include, 1)]

SearchIdle == found.op = "none"

\* api.search(query, include) answered with a status and a body that is not
\* JSON or is the JSON of a list of result sets.
SearchFor ==
    /\ SearchIdle
    /\ \E status \in ReadStatuses, body \in {"nonjson", "object"},
          buckets \in BucketLists, include \in Includes :
        LET r == SearchResult(status, body, buckets, include) IN
        /\ (body = "nonjson" \/ GetData(status, body).data = "None") => buckets = <<>>
        /\ found' = [op |-> "search", status |-> status, body |-> body,
                     buckets |-> buckets, include |-> include,
                     exc |-> r.exc, ret |-> r.ret, items |-> r.items]
    /\ UNCHANGED <<apiVars, pagerVars, lazy, built, video, moreVars>>

SearchReturn ==
    /\ ~SearchIdle
    /\ found' = NoSearch
    /\ UNCHANGED <<apiVars, pagerVars, lazy, built, video, moreVars>>

InitSearch ==
    /\ InitApi
    /\ fetches = <<>>
    /\ feed = <<>>
    /\ pager = [h \in Handles |-> NoPager]
    /\ InitModels

NextSearch ==
    \/ SearchFor
    \/ SearchReturn

SpecSearch == InitSearch /\ [][NextSearch]_vars

----------------------------------------------------------------------------
(* Show.episodes on a Show built with an Api, the server holding a fixed   *)
(* catalog of the show: the number of episodes of each of its seasons.     *)

Catalogs == UNION {[1..n -> 0..MaxEpisodes] : n \in 0..MaxSeasons}

\* What __get_multiple makes of the items of a response: None when there is
\* none.
ListOrNone(list) == IF list = <<>> THEN Unset ELSE ListOf(list)

\* not self._episodes, not self._seasons: None and the empty list are false.
ListFalsy(l) == ~l.set \/ l.list = <<>>

\* A request of the Api made by a property.
Fetch(call, id) == [call |-> call, id |-> id]

\* The episodes that season_episodes(s) decodes.
EpisodesOf(catalog, s) == [i \in 1..catalog[s] |-> [season |-> s, index |-> i]]

\* A Season as its constructor leaves it.
NewSeason(s) == [id_ |-> s, _episodes |-> Unset]

\* The seasons that show_seasons decodes.
SeasonsOf(catalog) == [s \in 1..Len(catalog) |-> NewSeason(s)]

\* Season.episodes on a Season object, after the requests of trail; the
\* request that is the failAt-th of the call raises HTTPError:
\* [exc, season, ret, trail].
SeasonEpisodesRead(catalog, season, trail, failAt) ==
    IF ~ListFalsy(season._episodes)
    THEN [exc |-> "none", season |-> season, ret |-> season._episodes,
          trail |-> trail]
    ELSE LET t2 == Append(trail, Fetch("season_episodes", season.id_))
             got == ListOrNone(EpisodesOf(catalog, season.id_))
         IN
         IF Len(t2) = failAt
         THEN [exc |-> "HTTPError", season |-> season, ret |-> Unset, trail |-> t2]
         ELSE [exc |-> "none", season |-> [season EXCEPT !._episodes = got],
               ret |-> got, trail |-> t2]

\* Show.seasons: [exc, cache, ret, trail].
ShowSeasonsRead(catalog, seasons, trail, failAt) ==
    IF ~ListFalsy(seasons)
    THEN [exc |-> "none", cache |-> seasons, ret |-> seasons, trail |-> trail]
    ELSE LET t2 == Append(trail, Fetch("show_seasons", 0))
             got == ListOrNone(SeasonsOf(catalog))
         IN
         IF Len(t2) = failAt
         THEN [exc |-> "HTTPError", cache |-> seasons, ret |-> Unset, trail |-> t2]
         ELSE [exc |-> "none", cache |-> got, ret |-> got, trail |-> t2]

RECURSIVE ExtendFrom(_, _, _, _, _, _)
\* for season in self.seasons: self._episodes.extend(season.episodes), from
\* the k-th season on, acc being self._episodes: [exc, seasons, acc, trail].
\* extend(None) raises TypeError.
ExtendFrom(catalog, seasons, k, acc, trail, failAt) ==
    IF k > Len(seasons)
    THEN [exc |-> "none", seasons |-> seasons, acc |-> acc, trail |-> trail]
    ELSE LET r == SeasonEpisodesRead(catalog, seasons[k], trail, failAt)
             seasons2 == [seasons EXCEPT ![k] = r.season]
         IN
         IF r.exc # "none"
         THEN [exc |-> r.exc, seasons |-> seasons, acc |-> acc, trail |-> r.trail]
         ELSE IF ~r.ret.set
         THEN [exc |-> "TypeError", seasons |-> seasons2, acc |-> acc,
               trail |-> r.trail]
         ELSE ExtendFrom(catalog, seasons2, k + 1, acc \o r.ret.list, r.trail,
                         failAt)

\* Show.episodes: [exc, _seasons, _episodes, ret, trail].  Iterating over
\* None raises TypeError.
ShowEpisodesResult(catalog, seasons, episodes, failAt) ==
    LET r1 == ShowSeasonsRead(catalog, seasons, <<>>, failAt)
        x == ExtendFrom(catalog, r1.ret.list, 1, <<>>, r1.trail, failAt)
    IN
    IF ~ListFalsy(episodes)
    THEN [exc |-> "none", _seasons |-> seasons, _episodes |-> episodes,
          ret |-> episodes, trail |-> <<>>]
    ELSE IF r1.exc # "none"
    THEN [exc |-> r1.exc, _seasons |-> seasons, _episodes |-> ListOf(<<>>),
          ret |-> Unset, trail |-> r1.trail]
    ELSE IF ~r1.ret.set
    THEN [exc |-> "TypeError", _seasons |-> r1.cache, _episodes |-> ListOf(<<>>),
          ret |-> Unset, trail |-> r1.trail]
    ELSE [exc |-> x.exc, _seasons |-> ListOf(x.seasons),
          _episodes |-> ListOf(x.acc),
          ret |-> IF x.exc = "none" THEN ListOf(x.acc) ELSE Unset,
          trail |-> x.trail]

ShownIdle == shown.op = "none"

\* A read of show.episodes; none of its requests fails (failAt 0) or the
\* failAt-th does.
ShownEpisodes ==
    /\ ShownIdle
    /\ \E failAt \in 0..(Len(shown.catalog) + 1) :
        LET r == ShowEpisodesResult(shown.catalog, shown._seasons,
                                    shown._episodes, failAt)
        IN
        shown' = [shown EXCEPT !.op = "Show.episodes", !.exc = r.exc,
                               !.ret = r.ret, !.trail = r.trail,
                               !.failed = (r.exc = "HTTPError"),
                               !.pre_seasons = shown._seasons,
                               !.pre_episodes = shown._episodes,
                               !._seasons = r._seasons,
                               !._episodes = r._episodes]
    /\ UNCHANGED <<apiVars, pagerVars, lazy, built, video, found, users, media, saved>>

ShownReturn ==
    /\ ~ShownIdle
    /\ shown' = [shown EXCEPT !.op = "none", !.exc = "none", !.ret = Unset,
                              !.trail = <<>>, !.failed = FALSE,
                              !.pre_seasons = Unset, !.pre_episodes = Unset]
    /\ UNCHANGED <<apiVars, pagerVars, lazy, built, video, found, users, media, saved>>

InitShow ==
    /\ InitApi
    /\ fetches = <<>>
    /\ feed = <<>>
    /\ pager = [h \in Handles |-> NoPager]
    /\ lazy = NoLazy
    /\ built = NoBuilt
    /\ video = NoVideo
    /\ found = NoSearch
    /\ shown \in {[NoShown EXCEPT !.catalog = c] : c \in Catalogs}
    /\ users = NoUsers
    /\ media = NoMedia
    /\ saved = NoSaved

NextShow ==
    \/ ShownEpisodes
    \/ ShownReturn

SpecShow == InitShow /\ [][NextShow]_vars

----------------------------------------------------------------------------
(* The User objects of the acting user, on an Api authenticated as user    *)
(* ActingUser.                                                             *)

ActingUser == 1

UsersIdle == users.op = "none"

\* The call op on reference ref ends with exc after reqs requests, leaving
\* the objects as objs2 and the history as stale2.
UsersCall(op, ref, exc, reqs, objs2, stale2) ==
    users' = [users EXCEPT !.op = op, !.ref = ref, !.exc = exc, !.reqs = reqs,
                           !.pre_stale = IF ref \in UserRefs
                                         THEN users.stale[ref] ELSE FALSE,
                           !.objs = objs2, !.stale = stale2]

\* api.me
UsersMe ==
    /\ UsersIdle
    /\ \E status \in ReadStatuses, body \in Bodies :
        LET r == MeResult(ActingUser, users.objs.me, status, body) IN
        UsersCall("me", "me", r.exc, r.reqs,
                  [users.objs EXCEPT !.me = r.me], users.stale)
    /\ UNCHANGED <<apiVars, pagerVars, lazy, built, video, found, shown, media, saved>>

\* other = api.user(api.user_id): a User object of its own.
UsersUser ==
    /\ UsersIdle
    /\ \E status \in ReadStatuses, body \in Bodies :
        LET r == BuildResponse("User", ActingUser, status, body)
            got == r.exc = "none" /\ r.obj # NoUser
        IN
        UsersCall("user", "other", r.exc, 1,
                  [users.objs EXCEPT !.other = IF got THEN r.obj ELSE @],
                  [users.stale EXCEPT !.other = IF got THEN FALSE ELSE @])
    /\ UNCHANGED <<apiVars, pagerVars, lazy, built, video, found, shown, media, saved>>

\* A read of the queue property of one of the objects.
UsersQueue ==
    /\ UsersIdle
    /\ \E ref \in UserRefs, answer \in QueueAnswers :
        LET r == UserQueueResult(users.objs[ref], answer) IN
        /\ users.objs[ref] # NoUser
        /\ UsersCall("User.queue", ref, r.exc, r.reqs,
                     [users.objs EXCEPT ![ref] = r.user],
                     [users.stale EXCEPT ![ref] =
                         IF r.reqs = 1 /\ r.exc = "none" THEN FALSE ELSE @])
    /\ UNCHANGED <<apiVars, pagerVars, lazy, built, video, found, shown, media, saved>>

\* add_episode_to_queue or remove_episode_from_queue: the request, then
\* self.me.queue_dirty = True.  When the call returns, every object that
\* holds a fetched queue holds one the write has outdated.
UsersQueueWrite ==
    /\ UsersIdle
    /\ \E op \in {"add_episode_to_queue", "remove_episode_from_queue"},
          status \in WriteStatuses, status2 \in ReadStatuses, body2 \in Bodies :
        LET m == MeResult(ActingUser, users.objs.me, status2, body2)
            exc == IF RaisesForStatus(status) THEN "HTTPError"
                   ELSE IF m.exc # "none" THEN m.exc
                   ELSE IF m.obj = NoUser THEN "AttributeError"
                   ELSE "none"
            me2 == IF RaisesForStatus(status) THEN users.objs.me
                   ELSE IF m.exc = "none" /\ m.obj # NoUser
                   THEN [m.me EXCEPT !.queue_dirty = TRUE]
                   ELSE m.me
            objs2 == [users.objs EXCEPT !.me = me2]
        IN
        UsersCall(op, "none", exc,
                  IF RaisesForStatus(status) THEN 1 ELSE 1 + m.reqs,
                  objs2,
                  [k \in UserRefs |->
                      IF exc = "none" /\ objs2[k] # NoUser /\ objs2[k]._queue # "None"
                      THEN TRUE
                      ELSE users.stale[k]])
    /\ UNCHANGED <<apiVars, pagerVars, lazy, built, video, found, shown, media, saved>>

\* old = api.me; api.update_user_details(api.user_id, ...): the caller keeps
\* the object that _me held.
UsersUpdate ==
    /\ UsersIdle
    /\ users.objs.me # NoUser
    /\ \E status \in WriteStatuses, body \in Bodies :
        LET r == UpdateResult(ActingUser, users.objs.me, ActingUser, status, body) IN
        UsersCall("update_user_details", "none", r.exc, r.reqs,
                  IF r.fresh
                  THEN [users.objs EXCEPT !.me = r.me, !.old = r.held]
                  ELSE [users.objs EXCEPT !.me = r.me],
                  IF r.fresh
                  THEN [users.stale EXCEPT !.me = FALSE, !.old = users.stale.me]
                  ELSE users.stale)
    /\ UNCHANGED <<apiVars, pagerVars, lazy, built, video, found, shown, media, saved>>

UsersReturn ==
    /\ ~UsersIdle
    /\ users' = [users EXCEPT !.op = "none", !.ref = "none", !.exc = "none",
                              !.reqs = 0, !.pre_stale = FALSE]
    /\ UNCHANGED <<apiVars, pagerVars, lazy, built, video, found, shown, media, saved>>

InitUsers ==
    /\ InitApi
    /\ fetches = <<>>
    /\ feed = <<>>
    /\ pager = [h \in Handles |-> NoPager]
    /\ InitModels

NextUsers ==
    \/ UsersMe
    \/ UsersUser
    \/ UsersQueue
    \/ UsersQueueWrite
    \/ UsersUpdate
    \/ UsersReturn

SpecUsers == InitUsers /\ [][NextUsers]_vars

----------------------------------------------------------------------------
(* An Episode built from JSON with or without a media section, and its     *)
(* video, audio and links accessors.                                       *)

\* A section of the media JSON with the given items.
Section(items) == [present |-> TRUE, items |-> items]

\* The picture of a link item: the key is absent, or it holds an object of
\* type picture, or one of another type.
LinkPictures == {"absent", "picture", "other"}

\* The videos and audioFiles sections: absent, or a list of well-formed
\* items, here their positions.
ItemSections ==
    {NoSection} \cup {Section([i \in 1..n |-> i]) : n \in 0..MaxMediaItems}

\* The links section: absent, or a list of link items, here their pictures.
LinkSections ==
    {NoSection}
        \cup UNION {{Section(l) : l \in [1..n -> LinkPictures]} : n \in 0..MaxMediaItems}

\* The episode JSON as far as its media goes.
MediaJsons ==
    {[media |-> FALSE, videos |-> NoSection, audioFiles |-> NoSection,
      links |-> NoSection]}
        \cup {[media |-> TRUE, videos |-> v, audioFiles |-> a, links |-> l] :
                  v \in ItemSections, a \in ItemSections, l \in LinkSections}

\* Thumbnail(thumbnails_json): filled only for type picture.
LinkThumbnail(picture) == IF picture = "picture" THEN "filled" ELSE "empty"

\* Link(url, title, thumbnail=thumbnail) for the i-th link item.
NewLink(i, picture) == [index |-> i, thumbnail |-> LinkThumbnail(picture)]

\* MediaGroup(media_json): [exc, group].  item["content"]["picture"] raises
\* KeyError on a link item without a picture.
MediaGroupOf(json) ==
    LET links == json.links.items IN
    IF \E i \in 1..Len(links) : links[i] = "absent"
    THEN [exc |-> "KeyError", group |-> NoGroup]
    ELSE [exc |-> "none",
          group |-> [set |-> TRUE,
                     videos |-> [i \in 1..Len(json.videos.items) |->
                                    [type |-> "Video", index |-> i]],
                     audio |-> [i \in 1..Len(json.audioFiles.items) |->
                                   [type |-> "Audio", index |-> i]],
                     links |-> [i \in 1..Len(links) |-> NewLink(i, links[i])]]]

\* The mediagroup that Episode.__init__ assigns: None when the JSON has no
\* media key and when building the MediaGroup raises KeyError.
EpisodeMediaGroup(json) ==
    IF ~json.media THEN NoGroup
    ELSE LET r == MediaGroupOf(json) IN
         IF r.exc = "KeyError" THEN NoGroup ELSE r.group

ValueNone == [kind |-> "None", list |-> <<>>]

\* self.mediagroup.videos[0] and self.mediagroup.audio[0] under
\* except (IndexError, AttributeError): [exc, ret].
FirstOrNone(group, list) ==
    IF ~group.set \/ list = <<>> THEN [exc |-> "none", ret |-> ValueNone]
    ELSE [exc |-> "none", ret |-> [kind |-> "item", list |-> <<list[1]>>]]

\* Episode.video
EpisodeVideo(group) == FirstOrNone(group, group.videos)

\* Episode.audio
EpisodeAudio(group) == FirstOrNone(group, group.audio)

\* Episode.links: return self.mediagroup.links, with nothing caught.
EpisodeLinks(group) ==
    IF ~group.set THEN [exc |-> "AttributeError", ret |-> ValueNone]
    ELSE [exc |-> "none", ret |-> [kind |-> "list", list |-> group.links]]

MediaIdle == media.op = "none"

\* episode = models.Episode(episode_json)
MediaBuild ==
    /\ MediaIdle
    /\ \E json \in MediaJsons :
        media' = [NoMedia EXCEPT !.built = TRUE, !.json = json,
                                 !.mediagroup = EpisodeMediaGroup(json),
                                 !.op = "Episode"]
    /\ UNCHANGED <<apiVars, pagerVars, lazy, built, video, found, shown, users, saved>>

\* A read of accessor op of the episode, r being what it gives.
MediaRead(op, r) ==
    /\ MediaIdle
    /\ media.built
    /\ media' = [media EXCEPT !.op = op, !.exc = r.exc, !.ret = r.ret]
    /\ UNCHANGED <<apiVars, pagerVars, lazy, built, video, found, shown, users, saved>>

MediaVideo == MediaRead("video", EpisodeVideo(media.mediagroup))

MediaAudio == MediaRead("audio", EpisodeAudio(media.mediagroup))

MediaLinks == MediaRead("links", EpisodeLinks(media.mediagroup))

MediaReturn ==
    /\ ~MediaIdle
    /\ media' = [media EXCEPT !.op = "none", !.exc = "none", !.ret = ValueNone]
    /\ UNCHANGED <<apiVars, pagerVars, lazy, built, video, found, shown, users, saved>>

InitMedia ==
    /\ InitApi
    /\ fetches = <<>>
    /\ feed = <<>>
    /\ pager = [h \in Handles |-> NoPager]
    /\ InitModels

NextMedia ==
    \/ MediaBuild
    \/ MediaVideo
    \/ MediaAudio
    \/ MediaLinks
    \/ MediaReturn

SpecMedia == InitMedia /\ [][NextMedia]_vars

----------------------------------------------------------------------------
(* A token kept from one session and used to construct the Api of the      *)
(* next.                                                                   *)

\* The caller keeps the token that a successful authenticate has returned,
\* with the user it is linked to.
SaveToken ==
    /\ last.op = "authenticate"
    /\ last.exc = "none"
    /\ last.ret # "None"
    /\ saved' = [saved EXCEPT !.token = last.ret, !.user = user_id]
    /\ last' = NoCall
    /\ UNCHANGED <<constructed, user_id, _me, token, session, meFetched>>
    /\ UNCHANGED <<authed, fetches, feed, pager, lazy, built, video, found>>
    /\ UNCHANGED <<shown, users, media>>

\* The api object is destroyed; what the caller has kept stays.
EndSession ==
    /\ Idle
    /\ constructed
    /\ constructed' = FALSE
    /\ user_id' = NoId
    /\ _me' = NoUser
    /\ token' = "None"
    /\ session' = [kind |-> "none", auth |-> "None"]
    /\ authed' = FALSE
    /\ meFetched' = FALSE
    /\ saved' = [saved EXCEPT !.reused = FALSE]
    /\ UNCHANGED <<last, fetches, feed, pager, lazy, built, video, found>>
    /\ UNCHANGED <<shown, users, media>>

\* Api(api_key) with the token kept.
ApiInitWithSaved ==
    /\ saved.token # "None"
    /\ ApiInitKey(saved.token)
    /\ saved' = [saved EXCEPT !.reused = TRUE]
    /\ UNCHANGED <<shown, users, media>>

InitReuse ==
    /\ InitApi
    /\ fetches = <<>>
    /\ feed = <<>>
    /\ pager = [h \in Handles |-> NoPager]
    /\ InitModels

NextReuse ==
    \/ ApiInit
    \/ ApiInitWithSaved
    \/ Authenticate
    \/ SaveToken
    \/ EndSession
    \/ AddEpisodeToQueue
    \/ MarkEpisodeWatched
    \/ UpdateUserDetails
    \/ Return

SpecReuse == InitReuse /\ [][NextReuse]_vars

----------------------------------------------------------------------------
(* The claims about the authentication gate, checked under Spec.           *)

PrivilegedOps ==
    {"add_episode_to_queue", "remove_episode_from_queue", "mark_episode_watched",
     "update_user_details"}

\* C1: on an Api that has never successfully authenticated as a user, each
\* of add_episode_to_queue, remove_episode_from_queue, mark_episode_watched
\* and update_user_details raises NotAuthenticatedError, and the call issues
\* no HTTP request.
C1_GateRejectsUnauthenticated ==
    (last.op \in PrivilegedOps /\ ~authed) =>
        (last.exc = "NotAuthenticatedError" /\ last.reqs = 0)

\* An authenticate call has failed, and a privileged call is then rejected.
C1_Witness ==
    /\ last.op = "remove_episode_from_queue"
    /\ ~authed
    /\ token = "tokB"
    /\ last.exc = "NotAuthenticatedError"

\* C2: user_id goes from null to set only in an authenticate call whose
\* response carried the success status and a user-id header; no read, write,
\* search or failed authenticate sets it.
C2_OnlyAuthenticateSetsUserId ==
    [][(user_id = NoId /\ user_id' # NoId) =>
          /\ last'.op = "authenticate"
          /\ last'.exc = "none"
          /\ last'.status = 201
          /\ last'.hdr \in {Digits[n + 1] : n \in UserIds}]_vars

\* A successful authenticate has moved the gate to Authenticated.
C2_Witness ==
    /\ last.op = "authenticate"
    /\ last.pre_uid = NoId
    /\ user_id = MaxUserId

\* C3, as claimed: a successful authenticate resets the cached current user,
\* so that a read of me returns the user of the current user id.
C3_AuthenticateResetsMe ==
    /\ (last.op = "authenticate" /\ last.exc = "none" /\ last.ret # "None")
          => _me = NoUser
    /\ (last.op = "me" /\ last.obj # NoUser /\ last.obj.id_ # NoId)
          => last.obj.id_ = user_id

\* C4: an authenticate call that fails on rejected credentials (401 with an
\* error description) or on a body that is not JSON raises
\* AuthenticationError and leaves user_id, the token and the cached current
\* user as they were.
C4_FailedAuthenticateChangesNothing ==
    (/\ last.op = "authenticate"
     /\ \/ last.body = "nonjson"
        \/ last.status = 401 /\ last.body \in {"json_err", "json_both"})
    => /\ last.exc = "AuthenticationError"
       /\ user_id = last.pre_uid
       /\ token = last.pre_token
       /\ _me = last.pre_me

\* An authenticated Api with a cached current user has its credentials
\* rejected.
C4_Witness ==
    /\ last.op = "authenticate"
    /\ last.status = 401
    /\ last.body = "json_both"
    /\ last.exc = "AuthenticationError"
    /\ last.pre_uid # NoId
    /\ _me # NoUser

\* C5, as claimed: every authenticate call either returns a token, which is
\* then the Api's token, with user_id set, or raises AuthenticationError.
C5_AuthenticateReturnsTokenOrRaises ==
    last.op = "authenticate" =>
        \/ /\ last.exc = "none"
           /\ last.ret # "None"
           /\ token = last.ret
           /\ user_id # NoId
        \/ last.exc = "AuthenticationError"

----------------------------------------------------------------------------
(* The claim about token acquisition, checked under SpecToken.             *)

\* The attempts 1..n all fail with an error of the retried set.
AllRetried(n) == \A i \in 1..n : fetches[i] \in RetriedErrors

\* C6: token acquisition makes at most 3 fetch attempts: it stops at the
\* first successful attempt, storing the token, never makes a 4th attempt,
\* and raises AuthenticationError when all 3 attempts fail with an error of
\* the retried set.
C6_AtMostThreeAttempts ==
    last.op \in {"__init__", "_get_token"} =>
        /\ last.reqs \in 1..3
        /\ AllRetried(last.reqs - 1)
        /\ last.exc = "none" =>
              (fetches[last.reqs] = "ok" /\ token = last.ret /\ last.ret # "None")
        /\ fetches[last.reqs] = "ok" => last.exc = "none"
        /\ AllRetried(3) => (last.exc = "AuthenticationError" /\ last.reqs = 3)
        /\ last.exc # "none" => token = last.pre_token

\* The third attempt succeeds after two retried failures.
C6_Witness ==
    /\ last.op = "__init__"
    /\ last.reqs = 3
    /\ last.exc = "none"
    /\ constructed

----------------------------------------------------------------------------
(* The claims about reads, checked under Spec.                             *)

\* C7, as claimed: with no known user id a read of me returns null without
\* a request; with a user id, reads of me with no authenticate or update in
\* between fetch the current user at most once and return the cached object
\* afterwards.
C7_MeFetchedAtMostOnce ==
    last.op = "me" =>
        /\ last.pre_uid = NoId => (last.obj = NoUser /\ last.reqs = 0)
        /\ last.pre_fetched => (last.reqs = 0 /\ last.obj = last.pre_me)

\* C7, amended: with no known user id a read of me returns null without a
\* request; a read of me issues at most one fetch, and none when a current
\* user is cached, which it then returns; a user that a fetch returned is
\* cached.
C7_MeCachesFetchedUser ==
    last.op = "me" =>
        /\ last.reqs <= 1
        /\ last.pre_uid = NoId =>
              (last.obj = NoUser /\ last.reqs = 0 /\ last.exc = "none")
        /\ last.pre_me # NoUser =>
              /\ last.reqs = 0
              /\ last.exc = "none"
              /\ last.obj = last.pre_me
              /\ _me = last.pre_me
        /\ (last.reqs = 1 /\ last.obj # NoUser) => _me = last.obj

\* A read of me after an earlier fetch is served from the cache.
C7_Witness ==
    /\ last.op = "me"
    /\ last.pre_fetched
    /\ last.pre_me # NoUser
    /\ last.obj = last.pre_me
    /\ last.reqs = 0

SingleReadOps == {"episode", "season", "show", "user"}

\* C8: for every single-resource read, a 404 response or a success response
\* whose body is not JSON yields a null result and raises nothing.
C8_NotFoundAndUndecodableAreNull ==
    (/\ last.op \in SingleReadOps
     /\ \/ last.status = 404
        \/ last.status = 200 /\ last.body = "nonjson")
    => (last.exc = "none" /\ last.obj = NoUser)

\* A season is not found.
C8_Witness ==
    /\ last.op = "season"
    /\ last.status = 404
    /\ last.body = "object"
    /\ last.obj = NoUser
    /\ last.exc = "none"

\* C9, as claimed: for every read, a status that is neither 200 nor 404
\* propagates as a transport-level error.
C9_OtherStatusRaises ==
    (/\ last.op \in SingleReadOps \cup {"search", "me"}
     /\ last.reqs = 1
     /\ last.status \notin {200, 404})
    => last.exc = "HTTPError"

----------------------------------------------------------------------------
(* The claim about pagination, checked under SpecPager.                    *)

\* The items of page p of the feed, in the server's order.
PageItems(p) ==
    IF p \in DOMAIN feed /\ feed[p].kind = "items"
    THEN [i \in 1..feed[p].len |-> <<p, i>>]
    ELSE <<>>

RECURSIVE ItemsOfPages(_)
\* The items of the given pages, page after page.
ItemsOfPages(pages) ==
    IF pages = <<>> THEN <<>>
    ELSE PageItems(Head(pages)) \o ItemsOfPages(Tail(pages))

IsPrefix(a, b) == Len(a) <= Len(b) /\ SubSeq(b, 1, Len(a)) = a

\* C10: a paginated sequence started at page p requests pages p, p+1, p+2,
\* ... in that order, none skipped or repeated, and yields every item of
\* every returned page exactly once, in server order within a page and in
\* page order across pages.
C10_PagesInOrderItemsOnce ==
    \A h \in Handles :
        LET g == pager[h]
            n == Len(g.requested)
        IN
        g.state # "none" =>
            /\ \A i \in 1..n : g.requested[i] = g.start + i - 1
            /\ IsPrefix(g.yielded, ItemsOfPages(g.requested))
            /\ n > 0 => IsPrefix(ItemsOfPages(SubSeq(g.requested, 1, n - 1)), g.yielded)
            /\ g.state \in {"done", "failed"} => g.yielded = ItemsOfPages(g.requested)
            /\ g.state = "suspended" =>
                  Len(g.yielded) = Len(ItemsOfPages(SubSeq(g.requested, 1, n - 1))) + g.idx

\* A generator started at page 2 has yielded two full pages and ended on
\* the empty page after them.
C10_Witness ==
    \E h \in Handles :
        /\ pager[h].state = "done"
        /\ pager[h].start = 2
        /\ pager[h].requested = <<2, 3, 4>>
        /\ Len(pager[h].yielded) = 2 * MaxPageLen

----------------------------------------------------------------------------
(* The claim about the dirty flag of the queue, checked under Spec.        *)

QueueWrites == {"add_episode_to_queue", "remove_episode_from_queue"}

\* C13, as claimed: after add_episode_to_queue or remove_episode_from_queue
\* succeeds, the current user's queue is marked dirty; the next read of the
\* queue performs exactly one fetch of the queue and clears the dirty flag.
C13_DirtyQueueReadClearsFlag ==
    /\ (last.op \in QueueWrites /\ last.exc = "none") =>
          (_me # NoUser /\ _me.queue_dirty)
    /\ (last.op = "queue" /\ last.pre_me.queue_dirty) =>
          (last.reqs = 1 /\ ~_me.queue_dirty)

\* C13, amended: after a successful add or remove the current user's queue
\* is marked dirty; the next read of the queue performs exactly one fetch;
\* when the fetch succeeds the read caches and returns its result and clears
\* the flag, and when the fetch raises the flag and the cache stay as they
\* were.
C13_DirtyQueueReadFetchesOnce ==
    /\ (last.op \in QueueWrites /\ last.exc = "none") =>
          (_me # NoUser /\ _me.queue_dirty)
    /\ (last.op = "queue" /\ last.pre_me.queue_dirty) =>
          /\ last.reqs = 1
          /\ last.exc = "none" =>
                (~_me.queue_dirty /\ _me._queue = last.ret /\ last.ret = last.body)
          /\ last.exc # "none" => _me = last.pre_me

\* A loaded queue that a write made dirty has been read again.
C13_Witness ==
    /\ last.op = "queue"
    /\ last.pre_me.queue_dirty
    /\ last.pre_me._queue = "items"
    /\ last.exc = "none"
    /\ ~_me.queue_dirty

----------------------------------------------------------------------------
(* The claims about the end of a paginated sequence and about separate     *)
(* handles, checked under SpecPager.                                       *)

\* Page p of the feed is empty or absent: __get_multiple gives nothing.
NothingOn(p) ==
    LET a == AnswerFor(feed, p) IN a.kind = "absent" \/ (a.kind = "items" /\ a.len = 0)

\* C11: a paginated sequence ends at the first request that returns an
\* empty or absent page; from then on the handle yields no further item and
\* issues no further request, however often it is resumed.
C11_EndsAtFirstEmptyPage ==
    \A h \in Handles :
        LET g == pager[h]
            n == Len(g.requested)
        IN
        /\ g.state = "done" =>
              /\ n > 0
              /\ NothingOn(g.requested[n])
              /\ \A i \in 1..(n - 1) : ~NothingOn(g.requested[i])
              /\ g.yielded = ItemsOfPages(SubSeq(g.requested, 1, n - 1))
        /\ (g.state \in {"created", "suspended"} /\ n > 0) =>
              \A i \in 1..n : ~NothingOn(g.requested[i])

\* A sequence that ended on an absent page after a page of items has been
\* resumed again.
C11_Witness ==
    \E h \in Handles :
        /\ pager[h].state = "done"
        /\ pager[h].stops = MaxStops
        /\ Len(pager[h].requested) = 2
        /\ AnswerFor(feed, pager[h].requested[2]).kind = "absent"
        /\ Len(pager[h].yielded) = MaxPageLen

RECURSIVE AloneFrom(_)
\* What a sequence started at the given page yields when nothing else runs.
AloneFrom(page) ==
    IF page \in DOMAIN feed /\ ~NothingOn(page) /\ feed[page].kind = "items"
    THEN PageItems(page) \o AloneFrom(page + 1)
    ELSE <<>>

\* C12: each call of a paginated operation creates a handle whose first
\* request is for its own start page, and a handle consumed in any
\* interleaving with another yields what it yields when consumed alone.
C12_HandlesAreIndependent ==
    \A h \in Handles :
        LET g == pager[h] IN
        g.state # "none" =>
            /\ g.state = "created" => (g.requested = <<>> /\ g.yielded = <<>>)
            /\ g.requested # <<>> => g.requested[1] = g.start
            /\ IsPrefix(g.yielded, AloneFrom(g.start))
            /\ g.state \in {"done", "failed"} => g.yielded = AloneFrom(g.start)

\* Two handles started at different pages are both part-way through.
C12_Witness ==
    /\ pager["h1"].state = "suspended"
    /\ pager["h2"].state = "suspended"
    /\ pager["h1"].start = 1
    /\ pager["h2"].start = 2
    /\ Len(pager["h1"].yielded) = MaxPageLen + 1
    /\ Len(pager["h2"].yielded) = MaxPageLen + 1

----------------------------------------------------------------------------
(* The claims about lazy relations, checked under SpecLazy.                *)

\* C14, as claimed: each lazy relation other than the queue is populated at
\* most once: once a read of it has issued its fetch and the fetch has
\* returned, whatever it returned, no later read of it issues a fetch.
C14_RelationsFetchedAtMostOnce ==
    (lazy.op \in Relations /\ lazy.preFetched[lazy.op]) => lazy.reqs = 0

\* The methods of C15.
RemoteOps ==
    {"Episode.season", "Episode.show", "Season.show", "Season.episodes",
     "Show.seasons", "Show.episodes", "User.queue", "User.update",
     "Episode.add_to_queue", "Episode.remove_from_queue",
     "Episode.mark_as_watched"}

\* C15, as claimed: on resources built without an api every lazy accessor
\* and remote method raises NotImplementedError and leaves the attributes
\* and caches of the resources unchanged.
C15_NoApiChangesNothing ==
    (lazy.op \in RemoteOps /\ ~lazy.api) =>
        (lazy.exc = "NotImplementedError" /\ lazy.objs = lazy.pre)

\* C15, amended: on resources built without an api every lazy accessor and
\* remote method raises NotImplementedError without a request; attributes
\* and caches are unchanged, except that Show.episodes has by then replaced
\* the unset episode cache of the show by an empty list.
C15_NoApiRaisesNotImplemented ==
    (lazy.op \in RemoteOps /\ ~lazy.api) =>
        /\ lazy.exc = "NotImplementedError"
        /\ lazy.reqs = 0
        /\ lazy.objs = IF lazy.op = "Show.episodes"
                       THEN [lazy.pre EXCEPT !.show._episodes = "empty"]
                       ELSE lazy.pre
        /\ \A r \in Relations : ~lazy.fetched[r]

\* Show.episodes has been read a second time on a show without an api.
C15_Witness ==
    /\ ~lazy.api
    /\ lazy.op = "Show.episodes"
    /\ lazy.exc = "NotImplementedError"
    /\ lazy.pre.show._episodes = "empty"

----------------------------------------------------------------------------
(* The claims about resources built from JSON, checked under SpecBuilt.    *)

\* C16: two resources are equal if and only if they have the same concrete
\* type and every mapped attribute is equal; resources of different types
\* are never equal, whatever their identifiers, and two objects built from
\* the same JSON are equal.
C16_EqualIffSameTypeAndAttributes ==
    built.op = "eq" =>
        /\ (built.ret = "True") <=>
              /\ built.type = built.type2
              /\ \A k \in {"id_", "label", "leaf"} :
                    built.obj.attrs[k] = built.obj2.attrs[k]
        /\ built.type # built.type2 => built.ret = "False"
        /\ (built.type = built.type2 /\ built.json = built.json2) =>
              built.ret = "True"

\* Two Shows built from different documents, one with an api and one
\* without, have the same attributes and are equal.
C16_Witness ==
    /\ built.op = "eq"
    /\ built.type = "Show"
    /\ built.type2 = "Show"
    /\ built.json # built.json2
    /\ built.api # built.api2
    /\ built.obj.attrs.id_ = "v2"
    /\ built.ret = "True"

\* C17, as claimed: constructing an Episode, a Season, a Show or a User
\* never fails because of what the JSON lacks; an attribute whose path is
\* missing at any depth is null, and an attribute whose path is present has
\* the value at the path.
C17_ConstructionNeverFails ==
    built.op = "build" =>
        /\ built.exc = "none"
        /\ built.json.id.kind = "absent" => built.obj.attrs.id_ = "None"
        /\ built.json.id.kind = "scalar" => built.obj.attrs.id_ = built.json.id.val
        /\ (built.json.group.kind = "object" /\ built.json.group.val # "absent") =>
              built.obj.attrs.leaf = built.json.group.val
        /\ (built.json.group.kind # "object" \/ built.json.group.val = "absent") =>
              built.obj.attrs.leaf = "None"

\* The labels that the content of a picture entry holds.
LabelsIn(pic) == IF pic.kind = "picture" THEN pic.labels ELSE {}

C19_SeasonThumbnailIsNull ==
    (/\ built.op = "thumbnail"
     /\ built.type = "Season"
     /\ built.json.profilePicture = AbsentPic)
    => (built.exc = "none" /\ built.ret = "None")

----------------------------------------------------------------------------
(* The claim about the quality of a Video, checked under SpecVideo.        *)

\* C20: get_quality() without a label returns the URL of the quality last
\* selected with success if there is one, and otherwise the URL of 720P, or
\* null when 720P is not in the rendition table, with no fallback to another
\* label; it raises only when the playlist had to be loaded and could not be.
C20_UnqualifiedGetQuality ==
    (video.op = "get_quality" /\ video.arg = "None") =>
        /\ video.selected # "None" =>
              /\ video.exc = "none"
              /\ video.selected \in video.table
              /\ video.ret = "base/NewHLS-" \o video.selected \o ".m3u8"
        /\ (video.selected = "None" /\ video.exc = "none") =>
              video.ret = IF "720P" \in video.table
                          THEN "base/NewHLS-720P.m3u8" ELSE "None"
        /\ video.exc # "none" =>
              (video.selected = "None" /\ video._available_qualities.labels = {})

\* After 240P was selected, get_quality() gives the 240P rendition of a
\* playlist that also has 720P.
C20_Witness ==
    /\ video.op = "get_quality"
    /\ video.arg = "None"
    /\ video.selected = "240P"
    /\ video.table = {"720P", "240P"}
    /\ video.ret = "base/NewHLS-240P.m3u8"

\* What get_quality() without a label gives on a video with the given dict
\* and selected_quality, the playlist being loadable.
Unqualified(available, selected_quality) ==
    GetQualityResult([video EXCEPT !._available_qualities = available,
                                   !.selected_quality = selected_quality],
                     "None", TRUE).ret

\* C21: set_selected_quality with a label that is not in the rendition
\* table raises KeyError and leaves the selected quality unchanged, so
\* get_quality() without a label gives the same URL before and after.
C21_FailedSelectionKeepsQuality ==
    (/\ video.op = "set_selected_quality"
     /\ video.arg \notin video.table
     /\ video.exc # "IOError")
    => /\ video.exc = "KeyError"
       /\ video.selected_quality = video.pre_selected_quality
       /\ Unqualified(video._available_qualities, video.selected_quality)
              = Unqualified(video.pre_available, video.pre_selected_quality)

\* With 480P selected, the selection of a label that the playlist lacks
\* has failed.
C21_Witness ==
    /\ video.op = "set_selected_quality"
    /\ video.arg = "1080P"
    /\ video.exc = "KeyError"
    /\ video.pre_selected_quality = "NewHLS-480P.m3u8"
    /\ video.selected_quality = "NewHLS-480P.m3u8"

\* C22: get_quality(q) with a label that is not in the rendition table
\* returns null without raising and without changing the selected quality;
\* with a label that is in the table it returns the base URL joined with
\* the URI of that rendition.
C22_QualifiedGetQuality ==
    (/\ video.op = "get_quality"
     /\ video.arg # "None"
     /\ video.exc # "IOError")
    => /\ video.exc = "none"
       /\ video.selected_quality = video.pre_selected_quality
       /\ video.arg \notin video.table => video.ret = "None"
       /\ video.arg \in video.table =>
             video.ret = "base/NewHLS-" \o video.arg \o ".m3u8"

\* With 720P selected, a rendition that the playlist lacks has been asked
\* for.
C22_Witness ==
    /\ video.op = "get_quality"
    /\ video.arg = "240P"
    /\ video.table = {"720P", "480P"}
    /\ video.selected_quality = "NewHLS-720P.m3u8"
    /\ video.exc = "none"
    /\ video.ret = "None"

\* C23, as claimed: over any sequence of calls on one Video the playlist is
\* loaded once, by the first call that needs the rendition table, and never
\* again, whatever it contained.
C23_PlaylistLoadedOnce ==
    /\ video.pre_loaded => video.reqs = 0
    /\ video.reqs <= 1

----------------------------------------------------------------------------
(* The claims about search, checked under SpecSearch.                      *)

RECURSIVE IncludedItems(_, _, _)
\* The items of the recognised result sets from the b-th on, in order, that
\* the include list include lets through when one is given.
IncludedItems(data, include, b) ==
    IF b > Len(data) THEN <<>>
    ELSE LET key == data[b].key
             type == IF key = "episodes" THEN "Episode"
                     ELSE IF key = "shows" THEN "Show"
                     ELSE IF key = "users" THEN "User"
                     ELSE "none"
             kept == /\ type # "none"
                     /\ include.given => type \in include.types
         IN
         (IF kept
          THEN [i \in 1..data[b].len |-> [type |-> type, bucket |-> b, index |-> i]]
          ELSE <<>>) \o IncludedItems(data, include, b + 1)

\* C24, as claimed: search returns the items of the result sets in the order
\* of the sets and then of the items within a set; when an include list is
\* given, of any length and also empty, exactly the items of the included
\* types are returned; when include is left out, the items of all the
\* recognised result sets are returned.
C24_SearchFiltersByInclude ==
    (found.op = "search" /\ found.exc = "none") =>
        found.items = IncludedItems(found.buckets, found.include, 1)

\* C25, as claimed: when the search request is answered 404 or with a
\* success body that is not JSON, search returns a null or empty result and
\* does not raise; a response without result sets gives an empty list.
C25_SearchFollowsDecodePolicy ==
    found.op = "search" =>
        /\ (found.status = 404 \/ (found.status = 200 /\ found.body = "nonjson")) =>
              (found.exc = "none" /\ found.items = <<>>)
        /\ (found.exc = "none" /\ found.buckets = <<>>) => found.items = <<>>

----------------------------------------------------------------------------
(* The claims about the writes of the Api, checked under Spec.             *)

UpdateOps == {"update_user_details", "User.update"}

\* C26: update_user_details on an authenticated Api with a user id other
\* than the authenticated one raises NotAuthenticatedError with no request
\* made and leaves the cached current user as it was; so does User.update on
\* a user object of another id that was built with the Api.
C26_UpdateOfOtherUserRejected ==
    (/\ last.op \in UpdateOps
     /\ last.api
     /\ ~NotAuthenticated(last.pre_uid, last.pre_me)
     /\ last.arg # last.pre_uid) =>
        /\ last.exc = "NotAuthenticatedError"
        /\ last.reqs = 0
        /\ _me = last.pre_me
        /\ last.held = last.pre_me

\* An authenticated Api with a cached current user has been asked to update
\* another user.
C26_Witness ==
    /\ last.op = "update_user_details"
    /\ last.pre_uid # NoId
    /\ last.pre_me # NoUser
    /\ last.arg \in UserIds
    /\ last.arg # last.pre_uid
    /\ last.exc = "NotAuthenticatedError"

\* C27: a successful update_user_details replaces the cached current user
\* by a new object built from the response body, which me then returns
\* without a request; the object that me returned before is another object
\* and keeps its attributes.
C27_UpdateReplacesCurrentUser ==
    (last.op = "update_user_details" /\ last.exc = "none") =>
        /\ last.fresh
        /\ _me = NewUser(IF last.body = "empty" THEN NoId ELSE last.arg)
        /\ last.held = last.pre_me
        /\ \A status \in ReadStatuses, body \in Bodies :
              LET m == MeResult(user_id, _me, status, body) IN
              m.exc = "none" /\ m.obj = _me /\ m.reqs = 0

\* The current user, fetched before and holding a loaded, dirty queue, has
\* been replaced by a successful update.
C27_Witness ==
    /\ last.op = "update_user_details"
    /\ last.exc = "none"
    /\ last.pre_me # NoUser
    /\ last.pre_me._queue = "items"
    /\ last.pre_me.queue_dirty
    /\ _me # last.pre_me
    /\ last.held = last.pre_me

WriteOps ==
    {"add_episode_to_queue", "remove_episode_from_queue", "mark_episode_watched",
     "update_user_details"}

\* C28, as claimed: a write whose response has a status that is not 2xx
\* raises a transport-level error, and the dirty flag of the queue and the
\* cached current user are then as they were before the call.
C28_WriteRaisesOnNon2xx ==
    (/\ last.op \in WriteOps
     /\ last.reqs > 0
     /\ last.status \notin 200..299) =>
        /\ last.exc = "HTTPError"
        /\ _me = last.pre_me

NetworkOps ==
    {"authenticate", "me", "episode", "season", "show", "user", "search",
     "add_episode_to_queue", "remove_episode_from_queue",
     "mark_episode_watched", "update_user_details"}

\* C29, as claimed: a call of an Api operation that touches the network,
\* pagination and the acquisition of the token apart, issues exactly one
\* request; add_episode_to_queue and remove_episode_from_queue that pass the
\* gate issue exactly one request whether or not the current user has been
\* fetched before.
C29_OneRequestPerCall ==
    /\ (last.op \in NetworkOps /\ last.reqs > 0) => last.reqs = 1
    /\ (last.op \in QueueWrites /\ last.exc # "NotAuthenticatedError") =>
          last.reqs = 1

----------------------------------------------------------------------------
(* The claim about the show of an episode, checked under SpecLazy.         *)

\* C30: the first read of Episode.show issues a season lookup by the
\* episode's season id and, when that gives a season, a show lookup by the
\* season's show id after it, and no lookup of a show by the episode; when
\* the read returns, its result is the show that the show lookup gave.
C30_EpisodeShowGoesThroughSeason ==
    (/\ lazy.op = "Episode.show"
     /\ lazy.api
     /\ lazy.pre.episode._season = "None") =>
        /\ Len(lazy.lookups) \in {1, 2}
        /\ lazy.reqs = Len(lazy.lookups)
        /\ lazy.lookups[1].call = "season(episode.season_id)"
        /\ Len(lazy.lookups) = 2 =>
              /\ lazy.lookups[1].answer = "value"
              /\ lazy.lookups[2].call = "show(season.show_id)"
        /\ lazy.exc = "none" =>
              /\ Len(lazy.lookups) = 2
              /\ lazy.ret = lazy.lookups[2].answer
              /\ lazy.objs.episode.season_show = lazy.ret

\* The first read of the show of an episode has returned a show.
C30_Witness ==
    /\ lazy.op = "Episode.show"
    /\ lazy.api
    /\ lazy.pre.episode._season = "None"
    /\ lazy.exc = "none"
    /\ lazy.ret = "value"
    /\ Len(lazy.lookups) = 2

----------------------------------------------------------------------------
(* The claim about the episodes of a show, checked under SpecShow.         *)

RECURSIVE AllEpisodes(_, _)
\* The episodes of the seasons from the s-th on, season after season.
AllEpisodes(catalog, s) ==
    IF s > Len(catalog) THEN <<>>
    ELSE [i \in 1..catalog[s] |-> [season |-> s, index |-> i]]
             \o AllEpisodes(catalog, s + 1)

\* C31, as claimed: a read of Show.episodes none of whose requests fails
\* gives the episodes of the seasons of the show, in the order of the
\* seasons and then of the episodes; the first read issues one fetch of the
\* list of seasons and then one fetch of episodes for each season, in order.
C31_ShowEpisodesConcatenatesSeasons ==
    (shown.op = "Show.episodes" /\ ~shown.failed) =>
        /\ shown.exc = "none"
        /\ shown.ret = ListOf(AllEpisodes(shown.catalog, 1))
        /\ (~shown.pre_seasons.set /\ ~shown.pre_episodes.set) =>
              shown.trail = <<Fetch("show_seasons", 0)>>
                              \o [s \in 1..Len(shown.catalog) |->
                                     Fetch("season_episodes", s)]

----------------------------------------------------------------------------
(* The claim about Episode.mark_as_watched, checked under SpecLazy.        *)

\* C32: Episode.mark_as_watched sets is_watched to true only after the
\* mark-as-watched call of the Api has returned without error; when the call
\* raises, not authenticated or a transport error, is_watched keeps the
\* value it had.
C32_WatchedSetOnlyOnSuccess ==
    (lazy.op = "Episode.mark_as_watched" /\ lazy.api) =>
        /\ lazy.exc = "none" => (lazy.objs.episode.is_watched /\ lazy.reqs = 1)
        /\ lazy.exc # "none" =>
              lazy.objs.episode.is_watched = lazy.pre.episode.is_watched
        /\ lazy.objs = [lazy.pre EXCEPT !.episode.is_watched =
                                           lazy.objs.episode.is_watched]

\* The mark-as-watched call of an unwatched episode has raised a transport
\* error.
C32_Witness ==
    /\ lazy.op = "Episode.mark_as_watched"
    /\ lazy.api
    /\ lazy.exc = "HTTPError"
    /\ ~lazy.pre.episode.is_watched
    /\ ~lazy.objs.episode.is_watched

----------------------------------------------------------------------------
(* The claim about the laziness of pagination, checked under SpecPager.    *)

\* Every page that generator g has requested came back full.
FullPages(g) ==
    \A i \in 1..Len(g.requested) :
        LET a == AnswerFor(feed, g.requested[i]) IN
        a.kind = "items" /\ a.len = MaxPageLen

\* C33: pagination is lazy: nothing is requested before the first item is
\* asked for, and page p+1 is requested only after every item of page p has
\* been yielded; when the server returns full pages of N items, the i-th
\* item yielded, counting from 0, is item i mod N of page start + i div N
\* and is yielded while that is the page of the handle, so a consumer that
\* stops causes no request for a later page.
C33_PaginationIsLazy ==
    \A h \in Handles :
        LET g == pager[h]
            n == Len(g.requested)
            N == MaxPageLen
        IN
        g.state # "none" =>
            /\ g.state = "created" => n = 0
            /\ n > 0 =>
                  /\ g.requested[n] = g.page
                  /\ IsPrefix(ItemsOfPages(SubSeq(g.requested, 1, n - 1)), g.yielded)
            /\ (g.state = "suspended" /\ FullPages(g)) =>
                  /\ \A k \in 1..Len(g.yielded) :
                        g.yielded[k] = Item(g.start + ((k - 1) \div N),
                                            ((k - 1) % N) + 1)
                  /\ g.page = g.start + ((Len(g.yielded) - 1) \div N)
                  /\ n = 1 + ((Len(g.yielded) - 1) \div N)

\* A consumer has stopped after the first item of the second full page of a
\* sequence started at page 2: the third page has not been requested.
C33_Witness ==
    \E h \in Handles :
        /\ pager[h].state = "suspended"
        /\ FullPages(pager[h])
        /\ pager[h].start = 2
        /\ Len(pager[h].yielded) = MaxPageLen + 1
        /\ pager[h].requested = <<2, 3>>

----------------------------------------------------------------------------
(* The claim about the cache of the queue, checked under Spec.             *)

\* C34, as claimed: once the queue of a user has been read, a further read
\* with no queue mutation in between issues no request and returns the
\* cached list, whatever the fetched queue held, an empty queue included.
C34_QueueReadOnceIsCached ==
    (/\ last.op = "queue"
     /\ last.pre_me._queue # "None"
     /\ ~last.pre_me.queue_dirty) =>
        /\ last.exc = "none"
        /\ last.reqs = 0
        /\ last.ret = last.pre_me._queue
        /\ _me = last.pre_me

----------------------------------------------------------------------------
(* The claim about the User objects of the acting user, checked under      *)
(* SpecUsers.                                                              *)

\* C35, as claimed: after the Api has added an episode to the queue or
\* removed one, every User object of the acting user that holds a cached
\* queue -- the one me returns, one fetched with user(id), one that
\* update_user_details has replaced -- fetches the queue again on its next
\* read.
C35_EveryUserObjectRefetches ==
    (users.op = "User.queue" /\ users.pre_stale) => users.reqs = 1

----------------------------------------------------------------------------
(* The claims about the media of an episode, checked under SpecMedia.      *)

\* C36, as claimed: the thumbnail of a link is optional: an episode whose
\* media JSON holds a link item without a picture is built with its media
\* group, that link has a null or empty thumbnail, and the videos and audio
\* of the same media JSON are available.
C36_LinkWithoutPictureKeepsMedia ==
    LET links == media.json.links.items IN
    (/\ media.built
     /\ media.json.media
     /\ \E i \in 1..Len(links) : links[i] = "absent") =>
        /\ media.mediagroup.set
        /\ Len(media.mediagroup.links) = Len(links)
        /\ \A i \in 1..Len(links) :
              links[i] = "absent" => media.mediagroup.links[i].thumbnail = "empty"
        /\ Len(media.mediagroup.videos) = Len(media.json.videos.items)
        /\ Len(media.mediagroup.audio) = Len(media.json.audioFiles.items)

\* The section of the media JSON that an accessor reads.
SectionOf(op) ==
    IF op = "video" THEN media.json.videos
    ELSE IF op = "audio" THEN media.json.audioFiles
    ELSE media.json.links

\* C38, as claimed: on an Episode built from JSON with no media section, or
\* with a media section that lacks the videos, the audio files or the links,
\* the video, audio and links accessors return null or an empty list; none
\* of them raises.
C38_MissingMediaGivesNull ==
    (/\ media.op \in {"video", "audio", "links"}
     /\ (~media.json.media \/ ~SectionOf(media.op).present)) =>
        /\ media.exc = "none"
        /\ media.ret.list = <<>>

----------------------------------------------------------------------------
(* The claim about a token used again, checked under SpecReuse.            *)

\* C37, as claimed: an Api constructed with the token of a successful
\* authenticate as api_key makes no request for a token and reports that
\* token as its own, and its privileged operations are carried out as the
\* user of the token: the authentication gate does not reject them.
C37_SavedTokenPassesGate ==
    /\ (last.op = "__init__(api_key)" /\ saved.reused) =>
          (last.reqs = 0 /\ last.exc = "none" /\ token = saved.token)
    /\ (/\ last.op \in PrivilegedOps
        /\ saved.reused
        /\ last.op = "update_user_details" => last.arg = saved.user) =>
          last.exc # "NotAuthenticatedError"

----------------------------------------------------------------------------
(* The claim about the atomicity of authenticate, checked under Spec.      *)

\* C39, as claimed: authenticate changes the gate atomically: the session
\* and the token are replaced only in a call that also sets user_id, so a
\* call that ends in an error, a success status without a numeric user-id
\* header included, leaves the session, the token and user_id as they were.
C39_AuthenticateIsAtomic ==
    last.op = "authenticate" =>
        /\ (session # last.pre_session \/ token # last.pre_token) =>
              (last.exc = "none" /\ user_id # NoId /\ last.ret = token)
        /\ last.exc # "none" =>
              /\ session = last.pre_session
              /\ token = last.pre_token
              /\ user_id = last.pre_uid

====
